---- MODULE Spec2Model ----
(***************************************************************************)
(* Live audio ingestion and segmentation engine of Dhwani-X:               *)
(* BufferManager (src/buffer_manager.py) and the chunk handler of          *)
(* LivePipeline (src/pipeline_live.py).                                    *)
(*                                                                         *)
(* Threads: thread Cap is the audio subsystem's thread that runs           *)
(* _audio_callback; the worker threads run _processing_loop; the control   *)
(* thread calls start_recording / stop_recording.  A handler that other    *)
(* threads can interleave with is split at the points where it reads or    *)
(* writes shared state; pc[t] is the position of thread t.                 *)
(*                                                                         *)
(* Spec      BufferManager with an arbitrary injected process_callback     *)
(*           (one step that returns or raises).                            *)
(* SpecLive  BufferManager with LivePipeline._process_chunk as callback.   *)
(* SpecSeq   the speech state machine and the utterance buffer driven by   *)
(*           one thread, one decision after the other.                     *)
(***************************************************************************)
EXTENDS Integers, Sequences, FiniteSets, TLC

(* ------------------------------ bounds --------------------------------- *)
\* chunks the audio subsystem delivers in one behaviour
MaxChunks == 4
\* faults (raising collaborators, stream status flags) injected in one behaviour
MaxFaults == 1
\* calls of start_recording that pass the is_recording guard
MaxStarts == 2
\* chunks the audio subsystem delivers in one behaviour of SpecLive
MaxLiveChunks == 3
\* speech decisions fed to the state machine in one behaviour of SpecSeq
MaxDecisions == 6
\* samples per second of the scaled-down model
sample_rate == 4
\* capacity of audio_queue in the scaled-down model
queue_maxsize == 2

(* ------------------------- program constants --------------------------- *)
chunk_duration == 1
context_duration == 3
\* the minimum utterance duration, 0.3 s, in tenths of a second
min_utterance_tenths == 3
\* seconds between two updates of the ambient-noise label
noise_update_interval == 5
\* BufferConfig.max_utterance_duration in seconds (30.0 in the code)
max_utterance_duration == 2
\* capacity of noise_history (100 in the code, line 65 of pipeline_live.py)
noise_history_maxlen == 2

chunk_samples == chunk_duration * sample_rate
context_samples == context_duration * sample_rate

\* the thread of the audio subsystem; the workers are numbered from 1
Cap == 0
Workers == 1..MaxStarts
Threads == {Cap} \cup Workers
\* the threads that call LivePipeline.start and LivePipeline.stop
Callers == {1, 2}
\* the numbers of the chunks of one behaviour
Chunks == 1..(IF MaxChunks > MaxDecisions THEN MaxChunks ELSE MaxDecisions)

VARIABLES
    \* BufferManager fields
    is_recording, audio_stream, worker_thread,
    audio_queue, error_queue, ring_buffer,
    in_speech, speech_buffer,
    total_chunks_received, total_chunks_processed,
    \* LivePipeline fields
    is_running, utterance_count, total_speech_time,
    \* thread positions and locals
    pc, chunk, prev, ctl_pc,
    \* history of the run
    delivered, accepted, dropped, epoch, handled, cb_count, appended,
    decisions, events, utterances, escaped, faults, starts,
    \* what one behaviour may inject
    fault_budget, start_budget, chunk_budget,
    \* the exception start_recording raised, the speech flag each thread
    \* computed in _process_chunk, the chunks on which the VAD raised
    raised, said, vad_failed,
    \* the threads that call LivePipeline.start and LivePipeline.stop
    call_pc, ctl_owner, open_failed, outcome,
    \* LivePipeline fields used with the collaborators, the wall clock and
    \* the value of time.time() each thread read in _process_chunk
    last_noise_update, current_noise_type, noise_history, transcriber_loaded,
    clock, current_time,
    \* history of the collaborator calls
    classified, loads, transcribed

ctlState == <<is_recording, audio_stream, worker_thread>>
counters == <<total_chunks_received, total_chunks_processed>>
speechVars == <<in_speech, speech_buffer>>
liveVars == <<is_running, utterance_count, total_speech_time>>
thrVars == <<pc, chunk, prev>>
chunkHist == <<delivered, accepted, dropped, epoch>>
workHist == <<handled, cb_count, appended>>
liveHist == <<decisions, events, utterances>>
budgets == <<fault_budget, start_budget, chunk_budget>>
moreVars == <<raised, said, vad_failed>>
sessVars == <<call_pc, ctl_owner, open_failed, outcome>>
pipeVars == <<last_noise_update, current_noise_type, noise_history,
              transcriber_loaded, clock, current_time, classified, loads,
              transcribed>>
vars == <<ctlState, audio_queue, error_queue, ring_buffer, counters, speechVars,
          liveVars, thrVars, ctl_pc, chunkHist, workHist, liveHist,
          escaped, faults, starts, budgets, moreVars, sessVars, pipeVars>>

(* ------------------------------ helpers -------------------------------- *)
\* the samples of the n-th chunk the audio subsystem delivers
Samples(n) == [i \in 1..chunk_samples |-> (n - 1) * chunk_samples + i]

\* the last n elements of s (all of s when it is shorter)
LastN(s, n) == IF Len(s) <= n THEN s ELSE SubSeq(s, Len(s) - n + 1, Len(s))

\* queue.Queue(maxsize).put_nowait raises queue.Full
FullOffByOne(q) == Len(q) > queue_maxsize

Full(q) == Len(q) >= queue_maxsize

\* deque(maxlen).extend: append on the right, evict on the left
RingExtendEvictNewest(rb, samples) ==
    SubSeq(rb \o samples, 1,
           IF Len(rb \o samples) <= context_samples
           THEN Len(rb \o samples) ELSE context_samples)

RingExtend(rb, samples) == LastN(rb \o samples, context_samples)

\* lines 64-69: where the capture callback goes on after put_nowait: to the
\* increment of total_chunks_received, or out of the callback on queue.Full
AfterPutCountAlways(full) == "incr"

AfterPut(full) == IF full THEN "idle" ELSE "incr"

\* a full queue that makes room by discarding its oldest chunk
put_rejected_evicts_oldest(q, x) == Append(Tail(q), x)

\* lines 65 and 67: put_nowait on a full audio_queue raises queue.Full and
\* leaves the queue as it is
put_rejected(q, x) == q

\* deque.append with the maxlen ignored: nothing is evicted
deque_append_unbounded(d, x) == Append(d, x)

\* pipeline_live.py line 65 and 140: noise_history is deque(maxlen=100);
\* append on a full deque discards the entry at the other end
deque_append(d, x) == LastN(Append(d, x), noise_history_maxlen)

\* put_nowait on an error queue of capacity one: queue.Full is raised and
\* swallowed by the writer, the entry is lost
put_nowait_capacity_one(q, e) == IF Len(q) >= 1 THEN q ELSE Append(q, e)

\* line 24: error_queue is queue.Queue() with no maxsize, so put_nowait
\* appends the entry and returns
put_nowait(q, e) == Append(q, e)

\* error_queue.put_nowait((origin, description)) on the unbounded queue
Fault(origin, n) == [origin |-> origin, chunk |-> n]

MayFault == faults < fault_budget

(* ------------------- speech state and utterance buffer ----------------- *)
\* update_speech_state: the new state and the event returned, from the
\* state read into `prev` and the decision
update_speech_state_every_speech_chunk(p, is_speech) ==
    [in_speech |-> is_speech,
     event |-> IF is_speech THEN "speech_started"
               ELSE IF p /\ ~is_speech THEN "utterance_complete"
               ELSE "no_change"]

update_speech_state(p, is_speech) ==
    [in_speech |-> is_speech,
     event |-> IF ~p /\ is_speech THEN "speech_started"
               ELSE IF p /\ ~is_speech THEN "utterance_complete"
               ELSE "no_change"]

\* line 196: speech_started empties the utterance buffer
BufferAfterState(buf, event) == IF event = "speech_started" THEN <<>> ELSE buf

\* add_to_speech_buffer
add_to_speech_buffer(buf, samples) == buf \o samples

\* an accessor that returns the empty array for an empty buffer
get_complete_utterance_array(buf) == buf

\* get_complete_utterance: None for an empty buffer
get_complete_utterance(buf) == IF Len(buf) = 0 THEN "None" ELSE buf

\* a filter that discards the absent utterance only
DiscardedAbsentOnly(buf) == Len(buf) = 0

\* _process_utterance, line 162: an absent utterance or one shorter than
\* 0.3 s is discarded
Discarded(buf) ==
    \/ Len(buf) = 0
    \/ Len(buf) * 10 < sample_rate * min_utterance_tenths

Event(e, n, t) == [event |-> e, chunk |-> n, thread |-> t]
Utterance(buf, n, t) == [samples |-> buf, chunk |-> n, thread |-> t]

(* -------------------- exception handlers of the code ------------------- *)
\* _audio_callback: the handler that catches an exception raised at `site`
\* ("escape": none does, the exception leaves the callback)
CaptureHandlerNoOuterTry(site) ==
    CASE site = "copy" -> "escape"
      [] site = "cb" -> "audio_callback"
      [] OTHER -> "escape"

CaptureHandler(site) ==
    CASE site = "copy" -> "audio_callback_FATAL"
      [] site = "cb" -> "audio_callback"
      [] OTHER -> "audio_callback_FATAL"

\* _processing_loop: the handler that catches an exception raised at `site`
WorkerHandlerOuterOnly(site) == "processing_loop"

WorkerHandlerNoTry(site) ==
    CASE site = "extend" -> "escape"
      [] site = "cb" -> "escape"
      [] OTHER -> "escape"

WorkerHandler(site) ==
    CASE site = "extend" -> "processing_ringbuffer"
      [] site = "cb" -> "processing_callback"
      [] OTHER -> "processing_loop"

\* a worker thread that ends at the first exception of a collaborator
AfterRaiseThreadEnds(h, next) == "dead"

\* what the worker does when an exception reaches handler h: an inner
\* handler records the fault and handling goes on at `next`; the handler of
\* line 123 records it and the loop starts over; with no handler the thread
\* dies
AfterRaise(h, next) ==
    CASE h = "escape" -> "dead"
      [] h = "processing_loop" -> "check"
      [] OTHER -> next

(* ------------------------------- Init ---------------------------------- *)
InitBuffer ==
    /\ is_recording = FALSE
    /\ audio_stream = "none"
    /\ worker_thread = 0
    /\ audio_queue = <<>>
    /\ error_queue = <<>>
    /\ ring_buffer = <<>>
    /\ in_speech = FALSE
    /\ speech_buffer = <<>>
    /\ total_chunks_received = 0
    /\ total_chunks_processed = 0

InitPipeline ==
    /\ is_running = FALSE
    /\ utterance_count = 0
    /\ total_speech_time = 0

InitThreads ==
    /\ pc = [t \in Threads |-> IF t = Cap THEN "idle" ELSE "none"]
    /\ chunk = [t \in Threads |-> 0]
    /\ prev = [t \in Threads |-> FALSE]
    /\ ctl_pc = "idle"

InitHistory ==
    /\ delivered = 0
    /\ accepted = <<>>
    /\ dropped = {}
    /\ epoch = [n \in Chunks |-> 0]
    /\ handled = <<>>
    /\ cb_count = [t \in Threads |-> [n \in Chunks |-> 0]]
    /\ appended = <<>>
    /\ decisions = [n \in Chunks |-> "unknown"]
    /\ events = <<>>
    /\ utterances = <<>>
    /\ escaped = FALSE
    /\ faults = 0
    /\ starts = 0

InitMore ==
    /\ raised = "none"
    /\ said = [t \in Threads |-> FALSE]
    /\ vad_failed = {}

\* no thread is inside LivePipeline.start or LivePipeline.stop
InitCallers ==
    /\ call_pc = [c \in Callers |-> "out"]
    /\ ctl_owner = 0
    /\ open_failed = [c \in Callers |-> FALSE]
    /\ outcome = [c \in Callers |-> "none"]

\* __init__ lines 49-50 and 56-65: no transcriber yet, no noise update yet;
\* time.time() is far beyond the update interval
InitPipe ==
    /\ last_noise_update = 0
    /\ current_noise_type = "unknown"
    /\ noise_history = <<>>
    /\ transcriber_loaded = FALSE
    /\ clock = noise_update_interval
    /\ current_time = [t \in Threads |-> 0]
    /\ classified = <<>>
    /\ loads = <<>>
    /\ transcribed = <<>>

\* a behaviour of Spec either injects faults into one session, or starts and
\* stops several sessions
Init ==
    /\ InitBuffer /\ InitPipeline /\ InitThreads /\ InitHistory
    /\ InitMore /\ InitCallers /\ InitPipe
    /\ \E b \in {<<MaxFaults, 1>>, <<0, MaxStarts>>} :
        fault_budget = b[1] /\ start_budget = b[2]
    /\ chunk_budget = MaxChunks

(* -------------------- _audio_callback (capture thread) ----------------- *)
\* the number of the stream that is open: streams are opened at line 140
\* and a worker is started for each at line 155
Session == IF ctl_pc = "start_worker" THEN starts + 1 ELSE starts

\* lines 52-61: the status report and the copy of the incoming block
CallbackEnter ==
    /\ pc[Cap] = "idle"
    /\ audio_stream = "active"
    /\ delivered < chunk_budget
    /\ \E status \in BOOLEAN, copy_raises \in BOOLEAN :
        LET n == delivered + 1
            cost == (IF status THEN 1 ELSE 0) + (IF copy_raises THEN 1 ELSE 0)
            reported == IF status
                        THEN put_nowait(error_queue, Fault("audio_status", n))
                        ELSE error_queue
            h == CaptureHandler("copy")
        IN  /\ faults + cost <= fault_budget
            /\ faults' = faults + cost
            /\ delivered' = n
            /\ epoch' = [epoch EXCEPT ![n] = Session]
            /\ IF copy_raises
               THEN /\ UNCHANGED <<pc, chunk>>
                    /\ escaped' = (escaped \/ h = "escape")
                    /\ error_queue' = IF h = "escape" THEN reported
                                      ELSE put_nowait(reported, Fault(h, n))
               ELSE /\ pc' = [pc EXCEPT ![Cap] = "put"]
                    /\ chunk' = [chunk EXCEPT ![Cap] = n]
                    /\ escaped' = escaped
                    /\ error_queue' = reported
    /\ UNCHANGED <<ctlState, audio_queue, ring_buffer, counters, speechVars,
                   liveVars, prev, ctl_pc, accepted, dropped, workHist,
                   liveHist, starts, budgets, moreVars, sessVars, pipeVars>>

\* lines 64-69: the non-blocking push; queue.Full drops the chunk and returns
CallbackPut ==
    /\ pc[Cap] = "put"
    /\ IF Full(audio_queue)
       THEN /\ dropped' = dropped \cup {chunk[Cap]}
            /\ pc' = [pc EXCEPT ![Cap] = AfterPut(TRUE)]
            /\ chunk' = [chunk EXCEPT ![Cap] = 0]
            /\ audio_queue' = put_rejected(audio_queue, chunk[Cap])
            /\ UNCHANGED accepted
       ELSE /\ audio_queue' = Append(audio_queue, chunk[Cap])
            /\ accepted' = Append(accepted, chunk[Cap])
            /\ pc' = [pc EXCEPT ![Cap] = AfterPut(FALSE)]
            /\ UNCHANGED <<dropped, chunk>>
    /\ UNCHANGED <<ctlState, error_queue, ring_buffer, counters, speechVars,
                   liveVars, prev, ctl_pc, delivered, epoch, workHist, liveHist,
                   escaped, faults, starts, budgets, moreVars, sessVars, pipeVars>>

\* line 66
CallbackCount ==
    /\ pc[Cap] = "incr"
    /\ total_chunks_received' = total_chunks_received + 1
    /\ pc' = [pc EXCEPT ![Cap] = "cb"]
    /\ UNCHANGED <<ctlState, audio_queue, error_queue, ring_buffer,
                   total_chunks_processed, speechVars, liveVars, chunk, prev,
                   ctl_pc, chunkHist, workHist, liveHist, escaped, faults,
                   starts, budgets, moreVars, sessVars, pipeVars>>

\* lines 72-81: the injected process_callback, called inline with the chunk
CallbackInvoke ==
    /\ pc[Cap] = "cb"
    /\ \E raises \in BOOLEAN :
        LET h == CaptureHandler("cb")
        IN  /\ raises => MayFault
            /\ faults' = IF raises THEN faults + 1 ELSE faults
            /\ escaped' = (escaped \/ (raises /\ h = "escape"))
            /\ error_queue' = IF raises /\ h # "escape"
                              THEN put_nowait(error_queue, Fault(h, chunk[Cap]))
                              ELSE error_queue
    /\ cb_count' = [cb_count EXCEPT ![Cap][chunk[Cap]] = @ + 1]
    /\ pc' = [pc EXCEPT ![Cap] = "idle"]
    /\ chunk' = [chunk EXCEPT ![Cap] = 0]
    /\ UNCHANGED <<ctlState, audio_queue, ring_buffer, counters, speechVars,
                   liveVars, prev, ctl_pc, chunkHist, handled, appended,
                   liveHist, starts, budgets, moreVars, sessVars, pipeVars>>

(* -------------------- _processing_loop (worker thread) ----------------- *)
\* line 94 as `while True`
WorkerCheckIgnoresFlag(w) ==
    /\ pc[w] = "check"
    /\ pc' = [pc EXCEPT ![w] = "get"]
    /\ UNCHANGED <<ctlState, audio_queue, error_queue, ring_buffer, counters,
                   speechVars, liveVars, chunk, prev, ctl_pc, chunkHist,
                   workHist, liveHist, escaped, faults, starts, budgets,
                   moreVars, sessVars, pipeVars>>

\* line 94: while self.is_recording; the thread ends when the flag is clear
WorkerCheck(w) ==
    /\ pc[w] = "check"
    /\ pc' = [pc EXCEPT ![w] = IF is_recording THEN "get" ELSE "dead"]
    /\ UNCHANGED <<ctlState, audio_queue, error_queue, ring_buffer, counters,
                   speechVars, liveVars, chunk, prev, ctl_pc, chunkHist,
                   workHist, liveHist, escaped, faults, starts, budgets, moreVars, sessVars, pipeVars>>

\* lines 96, 121-122: audio_queue.get(timeout=0.5); queue.Empty -> continue
WorkerGet(w) ==
    /\ pc[w] = "get"
    /\ IF audio_queue # <<>>
       THEN /\ chunk' = [chunk EXCEPT ![w] = Head(audio_queue)]
            /\ audio_queue' = Tail(audio_queue)
            /\ pc' = [pc EXCEPT ![w] = "extend"]
       ELSE /\ pc' = [pc EXCEPT ![w] = "check"]
            /\ UNCHANGED <<chunk, audio_queue>>
    /\ UNCHANGED <<ctlState, error_queue, ring_buffer, counters, speechVars,
                   liveVars, prev, ctl_pc, chunkHist, workHist, liveHist,
                   escaped, faults, starts, budgets, moreVars, sessVars, pipeVars>>

\* lines 99-105: ring_buffer.extend(chunk.flatten())
WorkerExtend(w) ==
    /\ pc[w] = "extend"
    /\ handled' = Append(handled, chunk[w])
    /\ \E raises \in BOOLEAN :
        LET h == WorkerHandler("extend")
        IN  /\ raises => MayFault
            /\ faults' = IF raises THEN faults + 1 ELSE faults
            /\ IF raises
               THEN /\ error_queue' = IF h = "escape" THEN error_queue
                                      ELSE put_nowait(error_queue, Fault(h, chunk[w]))
                    /\ pc' = [pc EXCEPT ![w] = AfterRaise(h, "cb")]
                    /\ UNCHANGED <<ring_buffer, appended>>
               ELSE /\ ring_buffer' = RingExtend(ring_buffer, Samples(chunk[w]))
                    /\ appended' = appended \o Samples(chunk[w])
                    /\ pc' = [pc EXCEPT ![w] = "cb"]
                    /\ UNCHANGED error_queue
    /\ UNCHANGED <<ctlState, audio_queue, counters, speechVars, liveVars,
                   chunk, prev, ctl_pc, chunkHist, cb_count, liveHist,
                   escaped, starts, budgets, moreVars, sessVars, pipeVars>>

\* lines 108-117: the injected process_callback, called with the chunk and a
\* snapshot of the ring buffer
WorkerInvoke(w) ==
    /\ pc[w] = "cb"
    /\ cb_count' = [cb_count EXCEPT ![w][chunk[w]] = @ + 1]
    /\ \E raises \in BOOLEAN :
        LET h == WorkerHandler("cb")
        IN  /\ raises => MayFault
            /\ faults' = IF raises THEN faults + 1 ELSE faults
            /\ IF raises
               THEN /\ error_queue' = IF h = "escape" THEN error_queue
                                      ELSE put_nowait(error_queue, Fault(h, chunk[w]))
                    /\ pc' = [pc EXCEPT ![w] = AfterRaise(h, "incr")]
               ELSE /\ pc' = [pc EXCEPT ![w] = "incr"]
                    /\ UNCHANGED error_queue
    /\ UNCHANGED <<ctlState, audio_queue, ring_buffer, counters, speechVars,
                   liveVars, chunk, prev, ctl_pc, chunkHist, handled, appended,
                   liveHist, escaped, starts, budgets, moreVars, sessVars, pipeVars>>

\* line 119
WorkerCount(w) ==
    /\ pc[w] = "incr"
    /\ total_chunks_processed' = total_chunks_processed + 1
    /\ pc' = [pc EXCEPT ![w] = "check"]
    /\ chunk' = [chunk EXCEPT ![w] = 0]
    /\ UNCHANGED <<ctlState, audio_queue, error_queue, ring_buffer,
                   total_chunks_received, speechVars, liveVars, prev, ctl_pc,
                   chunkHist, workHist, liveHist, escaped, faults, starts,
                   budgets, moreVars, sessVars, pipeVars>>

(* ---------------- start_recording / stop_recording (control) ----------- *)
\* lines 134-137
StartRecordingStep ==
    /\ ctl_pc = "idle"
    /\ IF is_recording
       THEN UNCHANGED <<is_recording, ctl_pc>>
       ELSE /\ starts < start_budget
            /\ is_recording' = TRUE
            /\ ctl_pc' = "start_stream"
    /\ UNCHANGED <<audio_stream, worker_thread, audio_queue, error_queue,
                   ring_buffer, counters, speechVars, liveVars, thrVars,
                   chunkHist, workHist, liveHist, escaped, faults, starts,
                   budgets, moreVars>>

StartRecording == StartRecordingStep /\ UNCHANGED <<sessVars, pipeVars>>

\* lines 140-152: open and start the input stream; a failure clears the flag
\* and is raised to the caller as RuntimeError
StartStreamStep ==
    /\ ctl_pc = "start_stream"
    /\ \E raises \in BOOLEAN :
        /\ raises => MayFault
        /\ faults' = IF raises THEN faults + 1 ELSE faults
        /\ IF raises
           THEN /\ is_recording' = FALSE
                /\ raised' = "RuntimeError"
                /\ ctl_pc' = "idle"
                /\ UNCHANGED audio_stream
           ELSE /\ audio_stream' = "active"
                /\ raised' = "none"
                /\ ctl_pc' = "start_worker"
                /\ UNCHANGED is_recording
    /\ UNCHANGED <<worker_thread, audio_queue, error_queue, ring_buffer,
                   counters, speechVars, liveVars, thrVars, chunkHist,
                   workHist, liveHist, escaped, starts, budgets, said,
                   vad_failed>>

StartStream == StartStreamStep /\ UNCHANGED <<sessVars, pipeVars>>

\* lines 155-156: a new daemon thread runs _processing_loop
StartWorkerStep ==
    /\ ctl_pc = "start_worker"
    /\ starts' = starts + 1
    /\ worker_thread' = starts + 1
    /\ pc' = [pc EXCEPT ![starts + 1] = "check"]
    /\ ctl_pc' = "idle"
    /\ UNCHANGED <<is_recording, audio_stream, audio_queue, error_queue,
                   ring_buffer, counters, speechVars, liveVars, chunk, prev,
                   chunkHist, workHist, liveHist, escaped, faults, budgets, moreVars>>

StartWorker == StartWorkerStep /\ UNCHANGED <<sessVars, pipeVars>>

\* stop_recording, lines 162-165, without the guard of lines 162-163
StopRecordingStepAlways ==
    /\ ctl_pc = "idle"
    /\ is_recording' = FALSE
    /\ ctl_pc' = "stop_stream"
    /\ UNCHANGED <<audio_stream, worker_thread, audio_queue, error_queue,
                   ring_buffer, counters, speechVars, liveVars, thrVars,
                   chunkHist, workHist, liveHist, escaped, faults, starts,
                   budgets, moreVars>>

\* lines 162-165
StopRecordingStep ==
    /\ ctl_pc = "idle"
    /\ IF ~is_recording
       THEN UNCHANGED <<is_recording, ctl_pc>>
       ELSE /\ is_recording' = FALSE
            /\ ctl_pc' = "stop_stream"
    /\ UNCHANGED <<audio_stream, worker_thread, audio_queue, error_queue,
                   ring_buffer, counters, speechVars, liveVars, thrVars,
                   chunkHist, workHist, liveHist, escaped, faults, starts,
                   budgets, moreVars>>

StopRecording == StopRecordingStep /\ UNCHANGED <<sessVars, pipeVars>>

\* lines 168-176: audio_stream.stop() returns once the callback in progress
\* has returned, and no callback is made afterwards; an exception of stop()
\* or close() is recorded and the stream delivers nothing more
StopStreamStep ==
    /\ ctl_pc = "stop_stream"
    /\ \E raises \in BOOLEAN :
        /\ raises => MayFault
        /\ ~raises => pc[Cap] = "idle"
        /\ faults' = IF raises THEN faults + 1 ELSE faults
        /\ error_queue' = IF raises
                          THEN put_nowait(error_queue, Fault("stop_stream", 0))
                          ELSE error_queue
    /\ audio_stream' = IF audio_stream = "none" THEN "none" ELSE "closed"
    /\ ctl_pc' = "stop_join"
    /\ UNCHANGED <<is_recording, worker_thread, audio_queue, ring_buffer,
                   counters, speechVars, liveVars, thrVars, chunkHist,
                   workHist, liveHist, escaped, starts, budgets, moreVars>>

StopStream == StopStreamStep /\ UNCHANGED <<sessVars, pipeVars>>

\* the worker is inside the call of process_callback, which can outlast the
\* join timeout
InLongCall(w) == pc[w] \in {"cb", "uss", "add", "utt"}

\* lines 179-183 with join() in place of join(timeout=1.0)
StopJoinStepNoTimeout ==
    /\ ctl_pc = "stop_join"
    /\ IF worker_thread # 0
       THEN pc[worker_thread] = "dead"
       ELSE TRUE
    /\ ctl_pc' = "idle"
    /\ UNCHANGED <<ctlState, audio_queue, error_queue, ring_buffer, counters,
                   speechVars, liveVars, thrVars, chunkHist, workHist,
                   liveHist, escaped, faults, starts, budgets, moreVars>>

\* lines 179-183: worker_thread.join(timeout=1.0) returns when the thread has
\* ended, or after the timeout with the thread still inside a long call
StopJoinStep ==
    /\ ctl_pc = "stop_join"
    /\ IF worker_thread # 0
       THEN pc[worker_thread] = "dead" \/ InLongCall(worker_thread)
       ELSE TRUE
    /\ ctl_pc' = "idle"
    /\ UNCHANGED <<ctlState, audio_queue, error_queue, ring_buffer, counters,
                   speechVars, liveVars, thrVars, chunkHist, workHist,
                   liveHist, escaped, faults, starts, budgets, moreVars>>

StopJoin == StopJoinStep /\ UNCHANGED <<sessVars, pipeVars>>

(* ---------------------------- specification ---------------------------- *)
Next ==
    \/ CallbackEnter
    \/ CallbackPut
    \/ CallbackCount
    \/ CallbackInvoke
    \/ \E w \in Workers : WorkerCheck(w)
    \/ \E w \in Workers : WorkerGet(w)
    \/ \E w \in Workers : WorkerExtend(w)
    \/ \E w \in Workers : WorkerInvoke(w)
    \/ \E w \in Workers : WorkerCount(w)
    \/ StartRecording
    \/ StartStream
    \/ StartWorker
    \/ StopRecording
    \/ StopStream
    \/ StopJoin

Spec == Init /\ [][Next]_vars

(* --------- LivePipeline._process_chunk, run by thread t as callback ---- *)
\* where thread t goes on when process_callback has returned
Return(t) == IF t = Cap THEN "idle" ELSE "incr"

Returning(t, next) ==
    /\ pc' = [pc EXCEPT ![t] = next]
    /\ chunk' = IF t = Cap /\ next = "idle" THEN [chunk EXCEPT ![t] = 0] ELSE chunk

\* lines 97 and 112-127: the speech decision of the chunk (the same chunk
\* gets the same decision whoever asks); when the VAD raises,
\* _check_speech_activity prints the error and returns 0.0, which is no
\* speech.  Line 99 and 192: update_speech_state then reads in_speech
ProcessChunkDecideFrom(t, at) ==
    /\ pc[t] = at
    /\ \E d \in {"speech", "silence"}, vad_raises \in BOOLEAN :
        /\ vad_raises => MayFault /\ d = "silence"
        /\ faults' = IF vad_raises THEN faults + 1 ELSE faults
        /\ vad_failed' = IF vad_raises THEN vad_failed \cup {chunk[t]}
                          ELSE vad_failed
        /\ ~vad_raises => decisions[chunk[t]] \in {"unknown", d}
        /\ decisions' = IF vad_raises THEN decisions
                         ELSE [decisions EXCEPT ![chunk[t]] = d]
        /\ said' = [said EXCEPT ![t] = (d = "speech")]
    /\ prev' = [prev EXCEPT ![t] = in_speech]
    /\ cb_count' = [cb_count EXCEPT ![t][chunk[t]] = @ + 1]
    /\ pc' = [pc EXCEPT ![t] = "uss"]
    /\ UNCHANGED <<ctlState, audio_queue, error_queue, ring_buffer, counters,
                   speechVars, liveVars, chunk, ctl_pc, chunkHist, handled,
                   appended, events, utterances, escaped, starts, budgets,
                   raised, sessVars, pipeVars>>

\* the speech decision is the first step of the handler when the noise
\* update of lines 91-95 is left out
ProcessChunkDecide(t) == ProcessChunkDecideFrom(t, "cb")

\* lines 193-202: update_speech_state writes the state and returns the event
ProcessChunkState(t) ==
    /\ pc[t] = "uss"
    /\ LET is_speech == said[t]
           r == update_speech_state(prev[t], is_speech)
       IN  /\ in_speech' = r.in_speech
           /\ speech_buffer' = BufferAfterState(speech_buffer, r.event)
           /\ events' = IF r.event = "no_change" THEN events
                        ELSE Append(events, Event(r.event, chunk[t], t))
           /\ Returning(t, IF is_speech THEN "add"
                           ELSE IF r.event = "utterance_complete" THEN "utt"
                           ELSE Return(t))
    /\ UNCHANGED <<ctlState, audio_queue, error_queue, ring_buffer, counters,
                   liveVars, prev, ctl_pc, chunkHist, workHist, decisions,
                   utterances, escaped, faults, starts, budgets, moreVars, sessVars, pipeVars>>

\* lines 101-102: a speech chunk is appended to the utterance buffer
ProcessChunkAdd(t) ==
    /\ pc[t] = "add"
    /\ speech_buffer' = add_to_speech_buffer(speech_buffer, Samples(chunk[t]))
    /\ Returning(t, Return(t))
    /\ UNCHANGED <<ctlState, audio_queue, error_queue, ring_buffer, counters,
                   in_speech, liveVars, prev, ctl_pc, chunkHist, workHist,
                   liveHist, escaped, faults, starts, budgets, moreVars, sessVars, pipeVars>>

\* lines 105-107, 157-167: _process_utterance takes the utterance, discards a
\* short one, counts it and hands it on
ProcessChunkUtteranceTo(t, next) ==
    /\ pc[t] = "utt"
    /\ IF Discarded(speech_buffer)
       THEN UNCHANGED <<utterance_count, total_speech_time, utterances>>
       ELSE /\ utterance_count' = utterance_count + 1
            /\ total_speech_time' =
                   total_speech_time + Len(speech_buffer) \div sample_rate
            /\ utterances' = Append(utterances,
                   Utterance(get_complete_utterance(speech_buffer), chunk[t], t))
    /\ Returning(t, IF Discarded(speech_buffer) THEN Return(t) ELSE next)
    /\ UNCHANGED <<ctlState, audio_queue, error_queue, ring_buffer, counters,
                   speechVars, is_running, prev, ctl_pc, chunkHist, workHist,
                   decisions, events, escaped, faults, starts, budgets, moreVars, sessVars, pipeVars>>

\* lines 169-198 left out: _process_utterance returns when it has counted
ProcessChunkUtterance(t) == ProcessChunkUtteranceTo(t, Return(t))

InitLive ==
    /\ InitBuffer /\ InitPipeline /\ InitThreads /\ InitHistory
    /\ InitMore /\ InitCallers /\ InitPipe
    /\ fault_budget = 0
    /\ start_budget = 1
    /\ chunk_budget = MaxLiveChunks

NextLive ==
    \/ CallbackEnter
    \/ CallbackPut
    \/ CallbackCount
    \/ \E w \in Workers : WorkerCheck(w)
    \/ \E w \in Workers : WorkerGet(w)
    \/ \E w \in Workers : WorkerExtend(w)
    \/ \E w \in Workers : WorkerCount(w)
    \/ \E t \in Threads : ProcessChunkDecide(t)
    \/ \E t \in Threads : ProcessChunkState(t)
    \/ \E t \in Threads : ProcessChunkAdd(t)
    \/ \E t \in Threads : ProcessChunkUtterance(t)
    \/ StartRecording
    \/ StartStream
    \/ StartWorker
    \/ StopRecording
    \/ StopStream
    \/ StopJoin

SpecLive == InitLive /\ [][NextLive]_vars

(* ------ the chunk handler driven by one thread, chunk after chunk ------ *)
\* _process_chunk from line 97 to line 107, with nothing interleaved
ProcessChunkSequential ==
    /\ delivered < chunk_budget
    /\ \E is_speech \in BOOLEAN :
        LET n == delivered + 1
            r == update_speech_state(in_speech, is_speech)
            cleared == BufferAfterState(speech_buffer, r.event)
            buf == IF is_speech THEN add_to_speech_buffer(cleared, Samples(n))
                   ELSE cleared
            handed == r.event = "utterance_complete" /\ ~Discarded(buf)
        IN  /\ delivered' = n
            /\ epoch' = [epoch EXCEPT ![n] = 0]
            /\ decisions' = [decisions EXCEPT
                                ![n] = IF is_speech THEN "speech" ELSE "silence"]
            /\ in_speech' = r.in_speech
            /\ speech_buffer' = buf
            /\ events' = IF r.event = "no_change" THEN events
                         ELSE Append(events, Event(r.event, n, Cap))
            /\ utterance_count' = IF handed THEN utterance_count + 1
                                  ELSE utterance_count
            /\ total_speech_time' =
                   IF handed THEN total_speech_time + Len(buf) \div sample_rate
                   ELSE total_speech_time
            /\ utterances' =
                   IF handed
                   THEN Append(utterances, Utterance(get_complete_utterance(buf), n, Cap))
                   ELSE utterances
    /\ UNCHANGED <<ctlState, audio_queue, error_queue, ring_buffer, counters,
                   is_running, thrVars, ctl_pc, accepted, dropped, workHist,
                   escaped, faults, starts, budgets, moreVars, sessVars, pipeVars>>

InitSeq ==
    /\ InitBuffer /\ InitPipeline /\ InitThreads /\ InitHistory
    /\ InitMore /\ InitCallers /\ InitPipe
    /\ fault_budget = 0
    /\ start_budget = 0
    /\ chunk_budget = MaxDecisions

NextSeq == ProcessChunkSequential

SpecSeq == InitSeq /\ [][NextSeq]_vars

(* ------------------------------ statistics ----------------------------- *)
\* get_buffer_stats
get_buffer_stats ==
    [chunks_received |-> total_chunks_received,
     chunks_processed |-> total_chunks_processed,
     ring_buffer_length |-> Len(ring_buffer),
     speech_buffer_length |-> Len(speech_buffer)]

(***************************************************************************)
(*                               Properties                                *)
(***************************************************************************)
Range(s) == {s[i] : i \in 1..Len(s)}
Last(s) == s[Len(s)]
IsPrefix(s, t) == Len(s) <= Len(t) /\ s = SubSeq(t, 1, Len(s))
\* the step is one of the capture callback / of worker w
CaptureStep == pc'[Cap] # pc[Cap] \/ delivered' # delivered
WorkerStep(w) == pc'[w] # pc[w]
\* no thread is inside the handling of a chunk and nothing waits in the queue
Quiescent ==
    /\ pc[Cap] = "idle"
    /\ audio_queue = <<>>
    /\ \A w \in Workers : pc[w] \in {"none", "check", "get", "dead"}

(* C1: under every interleaving of the capture callback's pushes and the   *)
(* workers' pops audio_queue never holds more than queue_maxsize chunks,   *)
(* and a push attempted on a full queue leaves the queue as it is and the  *)
(* callback returns at once (it is idle again after that one step).        *)
C1_QueueBounded ==
    /\ [](Len(audio_queue) <= queue_maxsize)
    /\ [][(pc[Cap] = "put" /\ CaptureStep /\ Len(audio_queue) >= queue_maxsize)
            => (audio_queue' = audio_queue /\ pc'[Cap] = "idle"
                /\ dropped' = dropped \cup {chunk[Cap]})]_vars

C1_Witness ==
    /\ dropped # {}
    /\ Len(audio_queue) = queue_maxsize
    /\ pc[Cap] = "idle"

(* C2: no exception leaves _audio_callback: whatever the queue holds,      *)
(* whether the stream reports a status, whether the copy or the injected   *)
(* process callback raises, the callback returns and each fault of a       *)
(* callback step is one new entry of error_queue with the origin of the    *)
(* capture callback.                                                       *)
C2_CallbackNeverRaises ==
    /\ [](~escaped)
    /\ [][(CaptureStep /\ faults' > faults)
            => /\ Len(error_queue') = Len(error_queue) + (faults' - faults)
               /\ IsPrefix(error_queue, error_queue')
               /\ Last(error_queue').origin \in
                      {"audio_status", "audio_callback", "audio_callback_FATAL"}
               /\ pc'[Cap] \in {"idle", "put"}]_vars

C2_Witness ==
    /\ \E i \in 1..Len(error_queue) : error_queue[i].origin = "audio_callback"
    /\ pc[Cap] = "idle"
    /\ ~escaped

(* C3: when the ring-buffer extension or the process callback raises while *)
(* a worker handles a chunk, the fault becomes an entry of error_queue and *)
(* the worker goes on with the handling of that chunk; a worker thread     *)
(* ends only at the loop test, with is_recording clear; is_recording is    *)
(* cleared only by stop_recording or by a start whose stream failed to     *)
(* open; so while a session runs its worker is alive.                      *)
C3_WorkerSurvivesFaults ==
    /\ [][\A w \in Workers :
            (WorkerStep(w) /\ faults' > faults)
            => /\ pc'[w] \in {"cb", "incr"}
               /\ error_queue' = Append(error_queue, Last(error_queue'))
               /\ Last(error_queue').origin \in
                      {"processing_ringbuffer", "processing_callback"}
               /\ Last(error_queue').chunk = chunk[w]]_vars
    /\ [][\A w \in Workers :
            (pc'[w] = "dead" /\ pc[w] # "dead")
            => (pc[w] = "check" /\ ~is_recording)]_vars
    /\ [][(is_recording /\ ~is_recording')
            => (ctl_pc' = "stop_stream" \/ ctl_pc = "start_stream")]_vars
    /\ []((is_recording /\ ctl_pc \in {"idle"} /\ worker_thread # 0)
            => pc[worker_thread] \notin {"none", "dead"})

C3_Witness ==
    /\ \E i \in 1..Len(error_queue) :
        /\ error_queue[i].origin = "processing_callback"
        /\ \E j \in 1..Len(handled) : handled[j] > error_queue[i].chunk
    /\ is_recording
    /\ total_chunks_processed >= 2

(* C4: the chunks the workers have begun to handle are, in handling order, *)
(* the first accepted chunks in push order: a chunk accepted earlier is    *)
(* handled earlier, a dropped chunk is never handled, and no chunk is      *)
(* handled twice.                                                          *)
C4_FifoHandling ==
    /\ IsPrefix(handled, accepted)
    /\ dropped \cap Range(handled) = {}
    /\ Cardinality(Range(handled)) = Len(handled)

(* ------------------------- the speech state machine -------------------- *)
\* the transition table of the specification: <<state, decision, event>>
TransitionTable ==
    {<<FALSE, TRUE, "speech_started">>,
     <<TRUE, TRUE, "no_change">>,
     <<TRUE, FALSE, "utterance_complete">>,
     <<FALSE, FALSE, "no_change">>}

IsSpeech(n) == decisions[n] = "speech"

\* the state before the n-th decision of a sequence that starts Idle
StateBefore(n) == n > 1 /\ IsSpeech(n - 1)

TableEvent(n) ==
    (CHOOSE row \in TransitionTable :
        row[1] = StateBefore(n) /\ row[2] = IsSpeech(n))[3]

RECURSIVE TableEvents(_)
TableEvents(n) ==
    IF n = 0 THEN <<>>
    ELSE IF TableEvent(n) = "no_change" THEN TableEvents(n - 1)
    ELSE Append(TableEvents(n - 1), [event |-> TableEvent(n), chunk |-> n])

Emitted == [i \in 1..Len(events) |-> [event |-> events[i].event,
                                      chunk |-> events[i].chunk]]

\* the first chunks of the maximal runs of speech decisions among 1..n
RunStarts(n) == {i \in 1..n : IsSpeech(i) /\ ~StateBefore(i)}
\* the chunks among 1..n that close a run of speech decisions
RunEnds(n) == {i \in 1..n : ~IsSpeech(i) /\ StateBefore(i)}

EventChunks(e) == {events[i].chunk : i \in {j \in 1..Len(events) : events[j].event = e}}
EventCount(e) == Cardinality({j \in 1..Len(events) : events[j].event = e})

(* C5: for every sequence of boolean decisions fed to update_speech_state  *)
(* from Idle, the events returned are those of the transition table, in    *)
(* order and at the same chunks (none where the state does not change),    *)
(* the state equals the last decision, and every maximal run of true       *)
(* decisions gives exactly one speech_started, at its first chunk, and     *)
(* exactly one utterance_complete, at the false decision that follows it.  *)
C5_TransitionTable ==
    /\ Emitted = TableEvents(delivered)
    /\ in_speech = (delivered > 0 /\ IsSpeech(delivered))
    /\ EventChunks("speech_started") = RunStarts(delivered)
    /\ EventCount("speech_started") = Cardinality(RunStarts(delivered))
    /\ EventChunks("utterance_complete") = RunEnds(delivered)
    /\ EventCount("utterance_complete") = Cardinality(RunEnds(delivered))

\* two runs of speech, the first longer than one decision, both closed
C5_Witness ==
    /\ delivered = MaxDecisions
    /\ EventCount("speech_started") = 2
    /\ EventCount("utterance_complete") = 2
    /\ \E n \in 2..delivered : IsSpeech(n) /\ IsSpeech(n - 1)

(* --------------------------- a live session ---------------------------- *)
\* every delivered chunk was accepted and nothing is in progress any more
AllHandled ==
    /\ Quiescent
    /\ dropped = {}
    /\ Len(accepted) = delivered
    /\ Len(handled) = delivered

\* the decisions of the delivered chunks are false, true ... true, false
OneRun ==
    /\ delivered >= 3
    /\ ~IsSpeech(1)
    /\ ~IsSpeech(delivered)
    /\ \A n \in 2..(delivered - 1) : IsSpeech(n)

RECURSIVE SamplesOf(_, _)
SamplesOf(from, to) ==
    IF from > to THEN <<>> ELSE Samples(from) \o SamplesOf(from + 1, to)

(* C6: in a running session whose delivered chunks have the decisions      *)
(* false, true (k times), false, once all chunks are handled exactly one   *)
(* speech_started has been emitted, at the first true chunk, exactly one   *)
(* utterance_complete, at the closing false chunk, and the one utterance   *)
(* taken there is the samples of the k speech chunks, once each, in order. *)
C6_OneUtterance ==
    (AllHandled /\ OneRun) =>
        /\ Emitted = <<[event |-> "speech_started", chunk |-> 2],
                       [event |-> "utterance_complete", chunk |-> delivered]>>
        /\ Len(utterances) = 1
        /\ utterances[1].chunk = delivered
        /\ utterances[1].samples = SamplesOf(2, delivered - 1)

RECURSIVE InvokedBy(_, _)
InvokedBy(S, n) ==
    IF S = {} THEN 0
    ELSE LET t == CHOOSE x \in S : TRUE
         IN  cb_count[t][n] + InvokedBy(S \ {t}, n)

\* how many times the processing callback was entered with chunk n
Invocations(n) == InvokedBy(Threads, n)

(* C7: the capture callback never invokes the processing callback; a chunk *)
(* is handed to the processing callback at most once, and once everything  *)
(* accepted has been handled, exactly once, by a worker.                   *)
C7_WorkerOnlyInvocation ==
    /\ \A n \in Chunks : cb_count[Cap][n] = 0
    /\ \A n \in Chunks : Invocations(n) <= 1
    /\ (Quiescent /\ Len(handled) = Len(accepted)) =>
           \A n \in Range(accepted) : Invocations(n) = 1

(* C8: only a worker thread is ever inside update_speech_state,            *)
(* add_to_speech_buffer or the ring-buffer extension, and never two        *)
(* threads at once.                                                        *)
C8_WorkerSoleMutator ==
    /\ \A t \in Threads : pc[t] \in {"extend", "uss", "add"} => t \in Workers
    /\ Cardinality({t \in Threads : pc[t] \in {"extend", "uss", "add"}}) <= 1

(* C9: the ring buffer never holds more than context_samples samples, and  *)
(* it holds exactly the last min(appended, context_samples) samples that   *)
(* were appended, oldest first.                                            *)
C9_RingBuffer ==
    /\ Len(ring_buffer) <= context_samples
    /\ Len(ring_buffer) = (IF Len(appended) <= context_samples
                           THEN Len(appended) ELSE context_samples)
    /\ \A i \in 1..Len(ring_buffer) :
           ring_buffer[i] = appended[Len(appended) - Len(ring_buffer) + i]

\* more was appended than the ring holds: the oldest samples are gone
C9_Witness ==
    /\ Len(appended) > context_samples
    /\ Len(ring_buffer) = context_samples
    /\ ring_buffer[1] # appended[1]

\* nothing has been taken from the queue and no push is in progress
NoConsumer ==
    /\ handled = <<>>
    /\ audio_queue = accepted
    /\ \A w \in Workers : chunk[w] = 0
    /\ pc[Cap] = "idle"
    /\ error_queue = <<>>

(* C10: with no consumer draining, after N > queue_maxsize pushes exactly  *)
(* queue_maxsize chunks are accepted and N - queue_maxsize rejected, the   *)
(* statistics report chunks_received = queue_maxsize and a dropped-chunk   *)
(* counter equal to the number of rejected pushes.                         *)
C10_DroppedCounter ==
    (NoConsumer /\ delivered > queue_maxsize) =>
        /\ Len(accepted) = queue_maxsize
        /\ Cardinality(dropped) = delivered - queue_maxsize
        /\ get_buffer_stats.chunks_received = queue_maxsize
        /\ "chunks_dropped" \in DOMAIN get_buffer_stats
        /\ get_buffer_stats["chunks_dropped"] = Cardinality(dropped)

(* --------------------------- the two counters -------------------------- *)
\* the capture callback has pushed a chunk and not yet counted it
PushUncounted == IF pc[Cap] = "incr" THEN 1 ELSE 0

(* C11: total_chunks_received counts exactly the successful pushes: it is  *)
(* the number of accepted chunks (less the one just pushed and about to be *)
(* counted), a successful push is followed by one increment, a rejected    *)
(* push leaves the counter unchanged, and once the capture callback has    *)
(* returned the counter equals the number of chunks accepted.              *)
C11_ReceivedCountsPushes ==
    /\ [](total_chunks_received + PushUncounted = Len(accepted))
    /\ [](pc[Cap] = "idle" => total_chunks_received = Len(accepted))
    /\ [][dropped' # dropped =>
            /\ total_chunks_received' = total_chunks_received
            /\ pc'[Cap] = "idle"]_vars
    /\ [][total_chunks_received' # total_chunks_received =>
            /\ total_chunks_received' = total_chunks_received + 1
            /\ pc[Cap] = "incr"
            /\ Last(accepted) = chunk[Cap]]_vars

\* chunks were accepted and counted, and a chunk was rejected
C11_Witness ==
    /\ pc[Cap] = "idle"
    /\ dropped # {}
    /\ total_chunks_received = queue_maxsize
    /\ Len(accepted) = queue_maxsize

\* the workers that have popped a chunk and not yet counted it
InHandling == {w \in Workers : pc[w] \notin {"none", "check", "get", "dead"}}
\* the chunks popped so far
Popped == Len(accepted) - Len(audio_queue)

(* C12: total_chunks_processed is incremented exactly once for every chunk *)
(* a worker pops, when its handling finishes, whether or not the ring      *)
(* extension or the processing callback raised; a pop that times out on an *)
(* empty queue does not increment it.                                      *)
C12_ProcessedCountsHandled ==
    /\ [](total_chunks_processed + Cardinality(InHandling) = Popped)
    /\ [][total_chunks_processed' # total_chunks_processed =>
            /\ total_chunks_processed' = total_chunks_processed + 1
            /\ \E w \in Workers : pc[w] = "incr" /\ pc'[w] = "check"]_vars
    /\ [][\A w \in Workers :
            (pc[w] = "get" /\ WorkerStep(w) /\ audio_queue = <<>>) =>
                total_chunks_processed' = total_chunks_processed]_vars

\* a chunk whose callback or ring extension raised is counted like the
\* others once its handling is over
C12_Witness ==
    /\ \E i \in 1..Len(error_queue) :
           error_queue[i].origin \in {"processing_callback", "processing_ringbuffer"}
    /\ InHandling = {}
    /\ total_chunks_processed = Popped
    /\ total_chunks_processed >= 2

(* ------------- LivePipeline.start / LivePipeline.stop (callers) -------- *)
\* chunks the audio subsystem delivers in one behaviour of SpecSession
MaxSessionChunks == 2

\* LivePipeline.start, lines 249-254: what becomes of an exception raised
\* by start_recording; both handlers print and go on to the finally block
StartHandler(exc) ==
    CASE exc = "KeyboardInterrupt" -> "printed"
      [] OTHER -> "printed"

\* the position a caller is left at when its call of start_recording or
\* stop_recording has returned
Set(c, at) == call_pc' = [call_pc EXCEPT ![c] = at]

\* start has returned to its caller: normally, since every exception of
\* the try block was handled
StartReturns(c) == outcome' = [outcome EXCEPT ![c] = "returned"]

\* a second thread calls into the pipeline only in a behaviour without
\* faults, and only while the first is inside start
MayCall(c) == c = 1 \/ (fault_budget = 0 /\ call_pc[1] # "out")

\* lines 235-238: start marks the session running and zeroes its counters,
\* whatever the state of the session
PipelineStart(c) ==
    /\ call_pc[c] = "out"
    /\ MayCall(c)
    /\ is_running' = TRUE
    /\ utterance_count' = 0
    /\ total_speech_time' = 0
    /\ Set(c, "s_rec")
    /\ outcome' = [outcome EXCEPT ![c] = "none"]
    /\ open_failed' = [open_failed EXCEPT ![c] = FALSE]
    /\ UNCHANGED <<ctlState, audio_queue, error_queue, ring_buffer, counters,
                   speechVars, thrVars, ctl_pc, chunkHist, workHist, liveHist,
                   escaped, faults, starts, budgets, moreVars, ctl_owner, pipeVars>>

\* line 241: start calls start_recording, which returns at once when the
\* buffer manager is recording already
PipelineStartRecording(c) ==
    /\ call_pc[c] = "s_rec"
    /\ ctl_owner = 0
    /\ StartRecordingStep
    /\ IF is_recording
       THEN Set(c, "s_wait") /\ UNCHANGED ctl_owner
       ELSE Set(c, "s_open") /\ ctl_owner' = c
    /\ UNCHANGED <<open_failed, outcome, pipeVars>>

\* lines 140-152 and 251-254: the RuntimeError of a stream that cannot be
\* opened is caught by start, printed, and start goes on to its finally
PipelineStartStream ==
    /\ ctl_owner # 0
    /\ call_pc[ctl_owner] = "s_open"
    /\ StartStreamStep
    /\ IF raised' = "none"
       THEN UNCHANGED <<call_pc, ctl_owner, open_failed>>
       ELSE /\ StartHandler(raised') = "printed"
            /\ Set(ctl_owner, "s_fin")
            /\ open_failed' = [open_failed EXCEPT ![ctl_owner] = TRUE]
            /\ ctl_owner' = 0
    /\ UNCHANGED <<outcome, pipeVars>>

\* lines 155-158, then 243-247: start waits
PipelineStartWorker ==
    /\ ctl_owner # 0
    /\ call_pc[ctl_owner] = "s_open"
    /\ StartWorkerStep
    /\ Set(ctl_owner, "s_wait")
    /\ ctl_owner' = 0
    /\ UNCHANGED <<open_failed, outcome, pipeVars>>

\* lines 243-250: the sleep of `duration` seconds ends, the loop sees
\* is_running cleared, or the user interrupts
PipelineWait(c) ==
    /\ call_pc[c] = "s_wait"
    /\ Set(c, "s_fin")
    /\ UNCHANGED <<ctlState, audio_queue, error_queue, ring_buffer, counters,
                   speechVars, liveVars, thrVars, ctl_pc, chunkHist, workHist,
                   liveHist, escaped, faults, starts, budgets, moreVars,
                   ctl_owner, open_failed, outcome, pipeVars>>

\* lines 255-256 and 260-263: the finally block of start calls stop, which
\* returns at once when is_running is clear
PipelineFinally(c) ==
    /\ call_pc[c] = "s_fin"
    /\ IF is_running
       THEN /\ is_running' = FALSE
            /\ Set(c, "s_stop")
            /\ UNCHANGED outcome
       ELSE /\ Set(c, "out")
            /\ StartReturns(c)
            /\ UNCHANGED is_running
    /\ UNCHANGED <<ctlState, audio_queue, error_queue, ring_buffer, counters,
                   speechVars, utterance_count, total_speech_time, thrVars,
                   ctl_pc, chunkHist, workHist, liveHist, escaped, faults,
                   starts, budgets, moreVars, ctl_owner, open_failed, pipeVars>>

\* a stop that zeroes the two counters of LivePipeline
PipelineStopResets(c) ==
    /\ call_pc[c] = "out"
    /\ MayCall(c)
    /\ IF is_running
       THEN /\ is_running' = FALSE
            /\ utterance_count' = 0
            /\ total_speech_time' = 0
            /\ Set(c, "p_stop")
            /\ outcome' = [outcome EXCEPT ![c] = "none"]
       ELSE /\ outcome' = [outcome EXCEPT ![c] = "not_running"]
            /\ UNCHANGED <<liveVars, call_pc>>
    /\ UNCHANGED <<ctlState, audio_queue, error_queue, ring_buffer, counters,
                   speechVars, thrVars, ctl_pc, chunkHist, workHist, liveHist,
                   escaped, faults, starts, budgets, moreVars, ctl_owner,
                   open_failed, pipeVars>>

\* lines 258-263: stop called from outside start; `outcome` records that
\* the call returned at the is_running guard
PipelineStop(c) ==
    /\ call_pc[c] = "out"
    /\ MayCall(c)
    /\ IF is_running
       THEN /\ is_running' = FALSE
            /\ Set(c, "p_stop")
            /\ outcome' = [outcome EXCEPT ![c] = "none"]
       ELSE /\ outcome' = [outcome EXCEPT ![c] = "not_running"]
            /\ UNCHANGED <<is_running, call_pc>>
    /\ UNCHANGED <<ctlState, audio_queue, error_queue, ring_buffer, counters,
                   speechVars, utterance_count, total_speech_time, thrVars,
                   ctl_pc, chunkHist, workHist, liveHist, escaped, faults,
                   starts, budgets, moreVars, ctl_owner, open_failed, pipeVars>>

\* line 264: stop calls stop_recording, which returns at once when the
\* buffer manager is not recording; lines 266-292 print the summary
PipelineStopRecording(c) ==
    /\ call_pc[c] \in {"s_stop", "p_stop"}
    /\ ctl_owner = 0
    /\ StopRecordingStep
    /\ IF is_recording
       THEN /\ Set(c, IF call_pc[c] = "s_stop" THEN "s_close" ELSE "p_close")
            /\ ctl_owner' = c
            /\ UNCHANGED outcome
       ELSE /\ Set(c, "out")
            /\ IF call_pc[c] = "s_stop" THEN StartReturns(c)
               ELSE UNCHANGED outcome
            /\ UNCHANGED ctl_owner
    /\ UNCHANGED <<open_failed, pipeVars>>

PipelineStopStream ==
    /\ ctl_owner # 0
    /\ call_pc[ctl_owner] \in {"s_close", "p_close"}
    /\ StopStreamStep
    /\ UNCHANGED <<sessVars, pipeVars>>

PipelineStopJoin ==
    /\ ctl_owner # 0
    /\ call_pc[ctl_owner] \in {"s_close", "p_close"}
    /\ StopJoinStep
    /\ Set(ctl_owner, "out")
    /\ IF call_pc[ctl_owner] = "s_close" THEN StartReturns(ctl_owner)
       ELSE UNCHANGED outcome
    /\ ctl_owner' = 0
    /\ UNCHANGED <<open_failed, pipeVars>>

\* a behaviour of SpecSession either injects faults with one caller inside
\* the pipeline, or lets two callers overlap without faults
InitSession ==
    /\ InitBuffer /\ InitPipeline /\ InitThreads /\ InitHistory
    /\ InitMore /\ InitCallers /\ InitPipe
    /\ \E b \in {<<MaxFaults, MaxSessionChunks - 1>>, <<0, MaxSessionChunks>>} :
        fault_budget = b[1] /\ chunk_budget = b[2]
    /\ start_budget = 1

NextSession ==
    \/ CallbackEnter
    \/ CallbackPut
    \/ CallbackCount
    \/ \E w \in Workers : WorkerCheck(w)
    \/ \E w \in Workers : WorkerGet(w)
    \/ \E w \in Workers : WorkerExtend(w)
    \/ \E w \in Workers : WorkerCount(w)
    \/ \E t \in Threads : ProcessChunkDecide(t)
    \/ \E t \in Threads : ProcessChunkState(t)
    \/ \E t \in Threads : ProcessChunkAdd(t)
    \/ \E t \in Threads : ProcessChunkUtterance(t)
    \/ \E c \in Callers : PipelineStart(c)
    \/ \E c \in Callers : PipelineStartRecording(c)
    \/ PipelineStartStream
    \/ PipelineStartWorker
    \/ \E c \in Callers : PipelineWait(c)
    \/ \E c \in Callers : PipelineFinally(c)
    \/ \E c \in Callers : PipelineStop(c)
    \/ \E c \in Callers : PipelineStopRecording(c)
    \/ PipelineStopStream
    \/ PipelineStopJoin

SpecSession == InitSession /\ [][NextSession]_vars

(* ------------------------------ fairness ------------------------------- *)
\* Each thread that has a step to take takes it: the capture callback, once
\* entered, runs to its end; a worker thread keeps running its loop; a call
\* of start_recording or stop_recording, once begun, goes on; every call of
\* the processing callback returns (or raises).  When the audio subsystem
\* delivers a chunk and when start_recording or stop_recording is called is
\* left open.
Fairness ==
    /\ WF_vars(CallbackPut)
    /\ WF_vars(CallbackCount)
    /\ WF_vars(CallbackInvoke)
    /\ \A w \in Workers : WF_vars(WorkerCheck(w))
    /\ \A w \in Workers : WF_vars(WorkerGet(w))
    /\ \A w \in Workers : WF_vars(WorkerExtend(w))
    /\ \A w \in Workers : WF_vars(WorkerInvoke(w))
    /\ \A w \in Workers : WF_vars(WorkerCount(w))
    /\ WF_vars(StartStream)
    /\ WF_vars(StartWorker)
    /\ WF_vars(StopStream)
    /\ WF_vars(StopJoin)

\* the behaviours of Spec with fewer chunks delivered
InitFair ==
    /\ InitBuffer /\ InitPipeline /\ InitThreads /\ InitHistory
    /\ InitMore /\ InitCallers /\ InitPipe
    /\ \E b \in {<<MaxFaults, 1>>, <<0, MaxStarts>>} :
        fault_budget = b[1] /\ start_budget = b[2]
    /\ chunk_budget = MaxChunks - 2

SpecFair == InitFair /\ [][Next]_vars /\ Fairness

(* ----------------------- faults of collaborators ----------------------- *)
\* the stream is drained: nothing is queued, in progress or unhandled
Drained ==
    /\ Quiescent
    /\ InHandling = {}
    /\ Len(handled) = Len(accepted)

\* every accepted chunk was processed and counted
AllCounted == total_chunks_processed = Len(accepted)

(* C13: when a collaborator call (the speech decision) raised while one    *)
(* chunk was handled, and nothing else failed, then once the stream is     *)
(* drained every accepted chunk has been processed and counted and the     *)
(* fault channel holds exactly one entry, which refers to that chunk.      *)
C13_OneFaultEntry ==
    (Drained /\ faults = 1 /\ vad_failed # {}) =>
        /\ AllCounted
        /\ Len(error_queue) = 1
        /\ error_queue[1].chunk \in vad_failed

(* ------------------------- start and stop calls ------------------------ *)
\* the session is Running: started, recording, no start or stop under way
Running == is_running /\ is_recording /\ ctl_pc = "idle"

\* caller c enters LivePipeline.start in this step
EntersStart(c) == call_pc[c] = "out" /\ call_pc'[c] = "s_rec"
\* the call of start_recording made by caller c returns in this step
\* without having passed the is_recording guard
StartRecordingSkipped(c) == call_pc[c] = "s_rec" /\ call_pc'[c] = "s_wait"

(* C14: a start called on a session that is Running is a no-op: the step   *)
(* that enters start changes no session state and no counter, and its call *)
(* of start_recording opens no stream, starts no worker and changes        *)
(* nothing.                                                                *)
C14_StartWhileRunningNoOp ==
    /\ [][\A c \in Callers : (Running /\ EntersStart(c)) =>
            UNCHANGED <<ctlState, counters, speechVars, liveVars, starts>>]_vars
    /\ [][\A c \in Callers : StartRecordingSkipped(c) =>
            UNCHANGED <<ctlState, counters, speechVars, liveVars, starts,
                        thrVars, ctl_pc>>]_vars

\* the program's variables: everything but the record of what the calls
\* of start and stop returned
programVars == <<ctlState, audio_queue, error_queue, ring_buffer, counters,
                 speechVars, liveVars, thrVars, ctl_pc, raised>>

\* in this step the call of stop made by caller c returns at the guard
StopSkipped(c) ==
    /\ call_pc[c] = "out"
    /\ outcome'[c] = "not_running"
    /\ outcome[c] # "not_running"

\* in this step the call of stop_recording made by caller c returns
StopRecordingSkipped(c) ==
    /\ call_pc[c] \in {"s_stop", "p_stop"}
    /\ call_pc'[c] = "out"

(* C15: a stop called on a session that is Stopped is a no-op: the call    *)
(* returns at once, it changes none of the program's variables, it does    *)
(* not go on to close the stream or join the worker; the same holds for    *)
(* stop_recording called while the buffer manager is not recording.        *)
C15_StopWhileStoppedNoOp ==
    /\ [][\A c \in Callers : (~is_running /\ call_pc[c] = "out") =>
            call_pc'[c] \in {"out", "s_rec"}]_vars
    /\ [][\A c \in Callers : StopSkipped(c) =>
            ~is_running /\ UNCHANGED <<programVars, call_pc, ctl_owner>>]_vars
    /\ [][\A c \in Callers : StopRecordingSkipped(c) =>
            ~is_recording /\ UNCHANGED <<programVars, ctl_owner>>]_vars
    /\ [][(~is_recording /\ ctl_pc = "idle") =>
            /\ ctl_pc' \in {"idle", "start_stream"}
            /\ ctl_pc' = "idle" => UNCHANGED ctlState]_vars

\* a stop has returned at the guard, on a session that was started and
\* stopped before
C15_Witness ==
    /\ \E c \in Callers : outcome[c] = "not_running" /\ call_pc[c] = "out"
    /\ starts > 0
    /\ ~is_running /\ ~is_recording /\ ctl_pc = "idle"

\* the call of start made by caller c is over
StartOver(c) == call_pc[c] = "out" /\ outcome[c] \in {"returned", "raised"}

(* C16: when the capture stream could not be opened during a call of       *)
(* start, that call ends by raising an error to its caller, and it leaves  *)
(* the session Stopped: not running, not recording, no worker started.     *)
C16_OpenFailureSurfaced ==
    \A c \in Callers : (open_failed[c] /\ StartOver(c)) =>
        /\ outcome[c] = "raised"
        /\ ~is_running
        /\ ~is_recording
        /\ worker_thread = 0

\* a call of stop_recording has passed the guard and has not returned
Stopping == ctl_pc \in {"stop_stream", "stop_join"}

(* C17: stop_recording, once past its guard, always returns, and with the  *)
(* session marked stopped: is_recording is clear from the guard to the     *)
(* return; a failure to close the stream is recorded and the call goes on  *)
(* to the join; the join returns after its timeout although the worker is  *)
(* still inside a long call of the processing callback.                    *)
C17_StopAlwaysReturns ==
    /\ [](Stopping => ~is_recording)
    /\ [][(ctl_pc = "stop_join" /\ ctl_pc' = "idle") => ~is_recording']_vars
    /\ [][(ctl_pc = "stop_stream" /\ ctl_pc' # ctl_pc) =>
            /\ ctl_pc' = "stop_join"
            /\ faults' > faults =>
                   /\ Len(error_queue') = Len(error_queue) + 1
                   /\ Last(error_queue').origin = "stop_stream"]_vars
    /\ []((ctl_pc = "stop_join" /\ worker_thread # 0
             /\ InLongCall(worker_thread)) => ENABLED StopJoin)
    /\ Stopping ~> (ctl_pc = "idle" /\ ~is_recording)

\* stop_recording has returned while the worker it joined is still inside
\* the processing callback
C17_Witness ==
    /\ ctl_pc = "idle"
    /\ ~is_recording
    /\ starts = 1
    /\ worker_thread # 0
    /\ InLongCall(worker_thread)

\* stop_recording has returned after the stream failed to close
C17_WitnessCloseRaised ==
    /\ ctl_pc = "idle"
    /\ ~is_recording
    /\ \E i \in 1..Len(error_queue) : error_queue[i].origin = "stop_stream"

Alive(w) == pc[w] \notin {"none", "dead"}

(* C18: once the running flag is clear, every worker thread that is alive  *)
(* ends, unless a start sets the flag again: it sees the flag at its next  *)
(* loop check and leaves the loop there, and a pop that finds the queue    *)
(* empty takes it to that check.                                           *)
C18_WorkerTerminates ==
    /\ \A w \in Workers :
          (Alive(w) /\ ~is_recording) ~> (pc[w] = "dead" \/ is_recording)
    /\ [][\A w \in Workers :
            (pc[w] = "check" /\ WorkerStep(w)) =>
                pc'[w] = (IF is_recording THEN "get" ELSE "dead")]_vars
    /\ [][\A w \in Workers :
            (pc[w] = "get" /\ WorkerStep(w) /\ audio_queue = <<>>) =>
                pc'[w] = "check"]_vars
    /\ [][\A w \in Workers : pc[w] = "dead" => pc'[w] = "dead"]_vars

\* a worker that handled chunks has ended after a stop, with chunks left
\* in the queue
C18_Witness ==
    /\ ~is_recording
    /\ ctl_pc = "idle"
    /\ \E w \in Workers : pc[w] = "dead"
    /\ \A w \in Workers : ~Alive(w)
    /\ handled # <<>>
    /\ audio_queue # <<>>


\* the speech state is Idle and the utterance buffer is empty
SpeechIdle == ~in_speech /\ speech_buffer = <<>>

\* start_recording has passed its guard and has not opened the stream yet
AtStart == ctl_pc = "start_stream"

\* a session was started, stop has returned and every worker has ended
AfterStop ==
    /\ starts >= 1
    /\ ~is_running /\ ~is_recording
    /\ ctl_pc = "idle"
    /\ \A c \in Callers : call_pc[c] = "out"
    /\ \A w \in Workers : ~Alive(w)

(* C19: at every start the speech state is Idle and the utterance buffer   *)
(* is empty, and after every stop, once the worker has ended, the speech   *)
(* state is Idle and the utterance buffer is empty, also when the session  *)
(* was stopped in the middle of an utterance.                              *)
C19_SpeechStateReset ==
    /\ AtStart => SpeechIdle
    /\ AfterStop => SpeechIdle

\* the part of C19 the code keeps: the first start finds the state that
\* __init__ left
C19_FirstStartIdle == (AtStart /\ starts = 0) => SpeechIdle

\* a session has ended in the middle of an utterance
C19_StoppedInSpeech == AfterStop /\ in_speech /\ speech_buffer # <<>>

\* the counts that get_buffer_stats reports are zero
CountersZero ==
    /\ get_buffer_stats.chunks_received = 0
    /\ get_buffer_stats.chunks_processed = 0

(* C20: every session counter is zero at start: when start_recording has   *)
(* passed its guard, chunks received and chunks processed are zero, as are  *)
(* the utterance count and the speech time, so that a second session on    *)
(* the same object counts only its own chunks.                             *)
C20_CountersResetAtStart ==
    AtStart => /\ CountersZero
               /\ utterance_count = 0
               /\ total_speech_time = 0

\* the part of C20 the code keeps: LivePipeline.start zeroes its own two
\* counters
C20_PipelineCountersReset ==
    [][\A c \in Callers :
        EntersStart(c) => utterance_count' = 0 /\ total_speech_time' = 0]_vars

\* a second start finds the counts of the first session
C20_SecondStartCounts ==
    AtStart /\ starts = 1 /\ total_chunks_received > 0
            /\ total_chunks_processed > 0

(* ===== LivePipeline._process_chunk with its collaborators, run by ====== *)
(* ===== the capture thread and by the workers                      ====== *)
\* seconds the wall clock advances in one behaviour of SpecPipe beyond the
\* first update interval
MaxAdvance == 5
\* seconds the wall clock advances while chunks are handled one at a time
MaxSequentialAdvance == 10
\* chunks the audio subsystem delivers in one behaviour of SpecPipe
MaxPipeChunks == 2

\* the labels the classifier may return
NoiseLabels == {"traffic"}

\* _process_utterance: the handler of an exception raised at `site`
UtteranceHandler(site) == "printed"

\* lines 140-144: the entry appended to noise_history
NoiseEntry(label, at) == [timestamp |-> at, type |-> label]

\* wall-clock time passes
TickUpTo(advance) ==
    /\ clock + noise_update_interval <= noise_update_interval + advance
    /\ clock' = clock + noise_update_interval
    /\ UNCHANGED <<ctlState, audio_queue, error_queue, ring_buffer, counters,
                   speechVars, liveVars, thrVars, ctl_pc, chunkHist, workHist,
                   liveHist, escaped, faults, starts, budgets, moreVars,
                   sessVars, last_noise_update, current_noise_type,
                   noise_history, transcriber_loaded, current_time,
                   classified, loads, transcribed>>

Tick == TickUpTo(MaxAdvance)

SequentialTick == TickUpTo(MaxSequentialAdvance)

\* lines 91-93: the time is read and compared with the last update
PipeClock(t) ==
    /\ pc[t] = "cb"
    /\ current_time' = [current_time EXCEPT ![t] = clock]
    /\ pc' = [pc EXCEPT ![t] =
                IF clock - last_noise_update >= noise_update_interval
                THEN "noise" ELSE "vad"]
    /\ UNCHANGED <<ctlState, audio_queue, error_queue, ring_buffer, counters,
                   speechVars, liveVars, chunk, prev, ctl_pc, chunkHist,
                   workHist, liveHist, escaped, faults, starts, budgets,
                   moreVars, sessVars, last_noise_update, current_noise_type,
                   noise_history, transcriber_loaded, clock, classified,
                   loads, transcribed>>

\* lines 94-95 and 129-155: the classifier is invoked; its result replaces
\* the label and is appended to the history; an exception is printed; the
\* time read at line 91 becomes the time of the last update
PipeClassify(t) ==
    /\ pc[t] = "noise"
    /\ \E raises \in BOOLEAN, label \in NoiseLabels :
        /\ raises => MayFault
        /\ faults' = IF raises THEN faults + 1 ELSE faults
        /\ classified' = Append(classified, [at |-> clock, ok |-> ~raises])
        /\ current_noise_type' = IF raises THEN current_noise_type ELSE label
        /\ noise_history' = IF raises THEN noise_history
                             ELSE deque_append(noise_history,
                                       NoiseEntry(label, clock))
    /\ last_noise_update' = current_time[t]
    /\ pc' = [pc EXCEPT ![t] = "vad"]
    /\ UNCHANGED <<ctlState, audio_queue, error_queue, ring_buffer, counters,
                   speechVars, liveVars, chunk, prev, ctl_pc, chunkHist,
                   workHist, liveHist, escaped, starts, budgets, moreVars,
                   sessVars, transcriber_loaded, clock, current_time, loads,
                   transcribed>>

\* lines 97-99
PipeDecide(t) == ProcessChunkDecideFrom(t, "vad")

\* lines 157-167, then line 175
PipeUtterance(t) == ProcessChunkUtteranceTo(t, "chk")

\* lines 175-176 and 75: the flag is tested
PipeCheckLoaded(t) ==
    /\ pc[t] = "chk"
    /\ pc' = [pc EXCEPT ![t] = IF transcriber_loaded THEN "trans" ELSE "loading"]
    /\ UNCHANGED <<ctlState, audio_queue, error_queue, ring_buffer, counters,
                   speechVars, liveVars, chunk, prev, ctl_pc, chunkHist,
                   workHist, liveHist, escaped, faults, starts, budgets,
                   moreVars, sessVars, pipeVars>>

\* lines 77-86: the transcriber is constructed and the flag set, or the
\* exception is printed and the flag cleared
PipeLoad(t) ==
    /\ pc[t] = "loading"
    /\ \E raises \in BOOLEAN :
        /\ raises => MayFault
        /\ faults' = IF raises THEN faults + 1 ELSE faults
        /\ transcriber_loaded' = ~raises
        /\ loads' = Append(loads,
              [chunk |-> chunk[t], thread |-> t, ok |-> ~raises,
               loaded_before |-> transcriber_loaded])
    /\ pc' = [pc EXCEPT ![t] = "avail"]
    /\ UNCHANGED <<ctlState, audio_queue, error_queue, ring_buffer, counters,
                   speechVars, liveVars, chunk, prev, ctl_pc, chunkHist,
                   workHist, liveHist, escaped, starts, budgets, moreVars,
                   sessVars, last_noise_update, current_noise_type,
                   noise_history, clock, current_time, classified,
                   transcribed>>

\* lines 178-181: without a transcriber the utterance is not transcribed
PipeCheckAvailable(t) ==
    /\ pc[t] = "avail"
    /\ Returning(t, IF transcriber_loaded THEN "trans" ELSE Return(t))
    /\ UNCHANGED <<ctlState, audio_queue, error_queue, ring_buffer, counters,
                   speechVars, liveVars, prev, ctl_pc, chunkHist,
                   workHist, liveHist, escaped, faults, starts, budgets,
                   moreVars, sessVars, pipeVars>>

\* lines 187-203: transcribe is invoked with the utterance taken at line
\* 160; an exception is printed
PipeTranscribe(t) ==
    /\ pc[t] = "trans"
    /\ \E raises \in BOOLEAN :
        /\ raises => MayFault /\ UtteranceHandler("transcribe") = "printed"
        /\ faults' = IF raises THEN faults + 1 ELSE faults
        /\ transcribed' = Append(transcribed,
              [chunk |-> chunk[t], thread |-> t, ok |-> ~raises])
    /\ Returning(t, Return(t))
    /\ UNCHANGED <<ctlState, audio_queue, error_queue, ring_buffer, counters,
                   speechVars, liveVars, prev, ctl_pc, chunkHist, workHist,
                   liveHist, escaped, starts, budgets, moreVars, sessVars,
                   last_noise_update, current_noise_type, noise_history,
                   transcriber_loaded, clock, current_time, classified,
                   loads>>

\* a behaviour of SpecPipe is one session that is started and not stopped,
\* with faults injected
InitPipeSpec ==
    /\ InitBuffer /\ InitPipeline /\ InitThreads /\ InitHistory
    /\ InitMore /\ InitCallers /\ InitPipe
    /\ fault_budget = MaxFaults
    /\ start_budget = 1
    /\ chunk_budget = MaxPipeChunks

NextPipe ==
    \/ CallbackEnter
    \/ CallbackPut
    \/ CallbackCount
    \/ \E w \in Workers : WorkerCheck(w)
    \/ \E w \in Workers : WorkerGet(w)
    \/ \E w \in Workers : WorkerExtend(w)
    \/ \E w \in Workers : WorkerCount(w)
    \/ Tick
    \/ \E t \in Threads : PipeClock(t)
    \/ \E t \in Threads : PipeClassify(t)
    \/ \E t \in Threads : PipeDecide(t)
    \/ \E t \in Threads : ProcessChunkState(t)
    \/ \E t \in Threads : ProcessChunkAdd(t)
    \/ \E t \in Threads : PipeUtterance(t)
    \/ \E t \in Threads : PipeCheckLoaded(t)
    \/ \E t \in Threads : PipeLoad(t)
    \/ \E t \in Threads : PipeCheckAvailable(t)
    \/ \E t \in Threads : PipeTranscribe(t)
    \/ StartRecording
    \/ StartStream
    \/ StartWorker

SpecPipe == InitPipeSpec /\ [][NextPipe]_vars

(* ------- the chunk handler over several sessions on one object --------- *)
\* no fault is injected; the sessions share MaxSessionChunks chunks
InitRelive ==
    /\ InitBuffer /\ InitPipeline /\ InitThreads /\ InitHistory
    /\ InitMore /\ InitCallers /\ InitPipe
    /\ fault_budget = 0
    /\ start_budget = MaxStarts
    /\ chunk_budget = MaxSessionChunks

SpecRelive == InitRelive /\ [][NextLive]_vars

(* --- _process_chunk called by one thread, block after block, with a --- *)
(* --- block of up to chunk_samples samples                           --- *)
\* calls of _process_chunk in one behaviour of SpecConsumer
MaxBlocks == 4

Cost(b) == IF b THEN 1 ELSE 0

\* a loader that sets the flag whether or not the constructor raised
load_transcriber_flag_always(loaded, raises) == TRUE

\* lines 74-86, _load_transcriber_lazy: the flag after the call
load_transcriber_lazy(loaded, raises) == IF loaded THEN TRUE ELSE ~raises

\* a handler that takes a chunk on which the VAD raised for speech
check_speech_activity_speech_on_error(d, raises) == IF raises THEN TRUE ELSE d

\* lines 112-127 and the test `speech_prob > 0.5`: the decision of the VAD,
\* and 0.0, which is no speech, when the VAD raises
check_speech_activity(d, raises) == IF raises THEN FALSE ELSE d

\* _process_chunk from line 91 to line 107 and _process_utterance from line
\* 160 to line 198, with nothing interleaved; each collaborator may raise
ProcessChunkBlock ==
    /\ delivered < chunk_budget
    /\ \E k \in 0..chunk_samples, d \in BOOLEAN, label \in NoiseLabels,
          noise_raises \in BOOLEAN, vad_raises \in BOOLEAN,
          load_raises \in BOOLEAN, trans_raises \in BOOLEAN :
        LET n == delivered + 1
            block == SubSeq(Samples(n), 1, k)
            due == clock - last_noise_update >= noise_update_interval
            is_speech == check_speech_activity(d, vad_raises)
            r == update_speech_state(in_speech, is_speech)
            cleared == BufferAfterState(speech_buffer, r.event)
            buf == IF is_speech THEN add_to_speech_buffer(cleared, block)
                   ELSE cleared
            taken == r.event = "utterance_complete" /\ ~Discarded(buf)
            loading == taken /\ ~transcriber_loaded
            loaded == IF loading
                      THEN load_transcriber_lazy(transcriber_loaded, load_raises)
                      ELSE transcriber_loaded
            transcribing == taken /\ loaded
            cost == Cost(noise_raises) + Cost(vad_raises) + Cost(load_raises)
                    + Cost(trans_raises)
        IN  /\ noise_raises => due
            /\ vad_raises => ~d
            \* lines 119-120: an empty block is no speech
            /\ d => k > 0
            /\ load_raises => loading
            /\ trans_raises => transcribing
            /\ faults + cost <= fault_budget
            /\ faults' = faults + cost
            /\ delivered' = n
            /\ epoch' = [epoch EXCEPT ![n] = 0]
            /\ current_time' = [current_time EXCEPT ![Cap] = clock]
            /\ classified' = IF due
                             THEN Append(classified,
                                         [at |-> clock, ok |-> ~noise_raises])
                             ELSE classified
            /\ current_noise_type' = IF due /\ ~noise_raises THEN label
                                     ELSE current_noise_type
            /\ noise_history' = IF due /\ ~noise_raises
                                THEN deque_append(noise_history,
                                       NoiseEntry(label, clock))
                                ELSE noise_history
            /\ last_noise_update' = IF due THEN clock ELSE last_noise_update
            /\ vad_failed' = IF vad_raises THEN vad_failed \cup {n}
                             ELSE vad_failed
            /\ decisions' = IF vad_raises THEN decisions
                            ELSE [decisions EXCEPT
                                    ![n] = IF d THEN "speech" ELSE "silence"]
            /\ in_speech' = r.in_speech
            /\ speech_buffer' = buf
            /\ events' = IF r.event = "no_change" THEN events
                         ELSE Append(events, Event(r.event, n, Cap))
            /\ utterance_count' = IF taken THEN utterance_count + 1
                                  ELSE utterance_count
            /\ total_speech_time' =
                   IF taken THEN total_speech_time + Len(buf) \div sample_rate
                   ELSE total_speech_time
            /\ utterances' =
                   IF taken
                   THEN Append(utterances,
                               Utterance(get_complete_utterance(buf), n, Cap))
                   ELSE utterances
            /\ loads' = IF loading
                        THEN Append(loads,
                                 [chunk |-> n, thread |-> Cap,
                                  ok |-> ~load_raises,
                                  loaded_before |-> transcriber_loaded])
                        ELSE loads
            /\ transcriber_loaded' = loaded
            /\ transcribed' =
                   IF transcribing
                   THEN Append(transcribed,
                               [chunk |-> n, thread |-> Cap, ok |-> ~trans_raises])
                   ELSE transcribed
    /\ UNCHANGED <<ctlState, audio_queue, error_queue, ring_buffer, counters,
                   is_running, thrVars, ctl_pc, accepted, dropped, workHist,
                   escaped, starts, budgets, raised, said, sessVars, clock>>

InitConsumer ==
    /\ InitBuffer /\ InitPipeline /\ InitThreads /\ InitHistory
    /\ InitMore /\ InitCallers /\ InitPipe
    /\ fault_budget = MaxFaults
    /\ start_budget = 0
    /\ chunk_budget = MaxBlocks

NextConsumer ==
    \/ ProcessChunkBlock
    \/ SequentialTick

SpecConsumer == InitConsumer /\ [][NextConsumer]_vars

(* ---- the speech-state methods of BufferManager called one by one ----- *)
\* calls in one behaviour of SpecApi
MaxCalls == 5

\* update_speech_state(is_speech)
ApiUpdateSpeechState ==
    /\ delivered < chunk_budget
    /\ \E is_speech \in BOOLEAN :
        LET r == update_speech_state(in_speech, is_speech)
        IN  /\ in_speech' = r.in_speech
            /\ speech_buffer' = BufferAfterState(speech_buffer, r.event)
            /\ events' = IF r.event = "no_change" THEN events
                         ELSE Append(events, Event(r.event, delivered + 1, Cap))
    /\ delivered' = delivered + 1
    /\ UNCHANGED <<ctlState, audio_queue, error_queue, ring_buffer, counters,
                   liveVars, thrVars, ctl_pc, accepted, dropped, epoch,
                   workHist, decisions, utterances, escaped, faults, starts,
                   budgets, moreVars, sessVars, pipeVars>>

\* add_to_speech_buffer(chunk), with a chunk of up to chunk_samples samples
ApiAddToSpeechBuffer ==
    /\ delivered < chunk_budget
    /\ \E k \in 0..chunk_samples :
        speech_buffer' = add_to_speech_buffer(speech_buffer,
                             SubSeq(Samples(delivered + 1), 1, k))
    /\ delivered' = delivered + 1
    /\ UNCHANGED <<ctlState, audio_queue, error_queue, ring_buffer, counters,
                   in_speech, liveVars, thrVars, ctl_pc, accepted, dropped,
                   epoch, workHist, liveHist, escaped, faults, starts,
                   budgets, moreVars, sessVars, pipeVars>>

\* get_complete_utterance(): the value returned is recorded in `utterances`
ApiGetCompleteUtterance ==
    /\ delivered < chunk_budget
    /\ utterances' = Append(utterances,
           Utterance(get_complete_utterance(speech_buffer), delivered + 1, Cap))
    /\ raised' = "none"
    /\ delivered' = delivered + 1
    /\ UNCHANGED <<ctlState, audio_queue, error_queue, ring_buffer, counters,
                   speechVars, liveVars, thrVars, ctl_pc, accepted, dropped,
                   epoch, workHist, decisions, events, escaped, faults, starts,
                   budgets, said, vad_failed, sessVars, pipeVars>>

InitApi ==
    /\ InitBuffer /\ InitPipeline /\ InitThreads /\ InitHistory
    /\ InitMore /\ InitCallers /\ InitPipe
    /\ fault_budget = 0
    /\ start_budget = 0
    /\ chunk_budget = MaxCalls

NextApi ==
    \/ ApiUpdateSpeechState
    \/ ApiAddToSpeechBuffer
    \/ ApiGetCompleteUtterance

SpecApi == InitApi /\ [][NextApi]_vars

(* ---------------- one session with several faults injected -------------- *)
InitFaults ==
    /\ InitBuffer /\ InitPipeline /\ InitThreads /\ InitHistory
    /\ InitMore /\ InitCallers /\ InitPipe
    /\ fault_budget = MaxFaults + 1
    /\ start_budget = 1
    /\ chunk_budget = MaxSessionChunks

SpecFaults == InitFaults /\ [][Next]_vars

(* ====================== claims C21 to C30 ============================== *)
\* the step is the entry of some caller into LivePipeline.start
StartEntered == \E c \in Callers : EntersStart(c)

C22_BufferEmptyWhenIdle == ~in_speech => speech_buffer = <<>>

\* the part of C22 the code keeps: the buffer is empty when the machine
\* is Idle and no utterance was completed yet
C22_EmptyBeforeFirstSpeech ==
    (~in_speech /\ events = <<>>) => speech_buffer = <<>>

\* an utterance was handed on and its samples are still in the buffer
C22_StaleAfterHandOff ==
    /\ ~in_speech
    /\ utterances # <<>>
    /\ speech_buffer = Last(utterances).samples

\* the chunks whose samples are in s
ChunksIn(s) == {((s[i] - 1) \div chunk_samples) + 1 : i \in 1..Len(s)}

(* C23: an utterance that is open when stop is called is dropped: every     *)
(* utterance handed to the consumer holds samples of the session in which   *)
(* it is handed on only, so nothing that was in the utterance buffer at     *)
(* a stop reaches the consumer in a later session.                          *)
C23_OpenUtteranceDropped ==
    \A i \in 1..Len(utterances) :
        \A n \in ChunksIn(utterances[i].samples) :
            epoch[n] = epoch[utterances[i].chunk]

\* the part of C23 the code keeps: stop_recording itself hands nothing on
C23_StopHandsNothing ==
    [][(ctl_pc' # ctl_pc /\ (Stopping \/ ctl_pc' \in {"stop_stream", "stop_join"}))
        => (utterances' = utterances /\ utterance_count' = utterance_count)]_vars

\* a second session is running and the utterance left open by the stop of
\* the first one is still in the buffer
C23_OpenAtRestart ==
    /\ starts = 2 /\ is_recording
    /\ in_speech /\ speech_buffer # <<>>
    /\ \A n \in ChunksIn(speech_buffer) : epoch[n] = 1
    /\ utterances = <<>>

\* the step is a call of _process_chunk that takes the machine from
\* InSpeech to Idle
LeavesSpeech == in_speech /\ ~in_speech'

\* fewer samples than 0.3 s of audio, none included
TooShort(buf) == Len(buf) * 10 < 3 * sample_rate

(* C24: every call that takes the machine from InSpeech to Idle emits       *)
(* utterance_complete, whatever the length of the utterance; when the       *)
(* utterance is absent or shorter than 0.3 s the consumer leaves            *)
(* utterance_count, total_speech_time and the transcriber as they are,      *)
(* attempts no load, invokes no transcription and reports nothing.          *)
C24_ShortUtteranceDiscarded ==
    /\ [][LeavesSpeech =>
            /\ Len(events') = Len(events) + 1
            /\ Last(events').event = "utterance_complete"]_vars
    /\ [][(LeavesSpeech /\ TooShort(speech_buffer)) =>
            /\ utterance_count' = utterance_count
            /\ total_speech_time' = total_speech_time
            /\ transcriber_loaded' = transcriber_loaded
            /\ loads' = loads
            /\ transcribed' = transcribed
            /\ utterances' = utterances
            /\ error_queue' = error_queue]_vars

\* an utterance of one sample was completed and discarded after an
\* utterance long enough had been counted
C24_Witness ==
    /\ ~in_speech
    /\ Len(speech_buffer) = 1
    /\ Last(events).event = "utterance_complete"
    /\ Last(events).chunk = delivered
    /\ utterance_count = 1
    /\ Last(utterances).chunk < delivered

\* the last two calls were update_speech_state(True), which returned
\* speech_started, and update_speech_state(False), which returned
\* utterance_complete: nothing was appended in between
FinalizedAtOnce ==
    /\ Len(events) >= 2
    /\ events[Len(events) - 1].event = "speech_started"
    /\ Last(events).event = "utterance_complete"
    /\ Last(events).chunk = events[Len(events) - 1].chunk + 1
    /\ delivered = Last(events).chunk

(* C25: when an utterance is finalized right after speech_started, with no  *)
(* chunk appended, the utterance buffer is empty, get_complete_utterance    *)
(* returns None and nothing is raised or reported.                          *)
C25_EmptyUtteranceAbsent ==
    /\ [](FinalizedAtOnce => speech_buffer = <<>>)
    /\ [][(FinalizedAtOnce /\ utterances' # utterances) =>
            /\ Last(utterances').samples = "None"
            /\ raised' = "none"
            /\ error_queue' = error_queue
            /\ speech_buffer' = speech_buffer]_vars

\* samples were appended, then speech_started emptied the buffer, the
\* utterance was finalized at once and get_complete_utterance was called
C25_Witness ==
    /\ Len(utterances) = 1
    /\ Len(events) = 2
    /\ events[1].event = "speech_started"
    /\ events[1].chunk = 2
    /\ events[2].chunk = 3
    /\ utterances[1].chunk = 4
    /\ speech_buffer = <<>>

\* the step is a call of _process_chunk in which the VAD raised
VadRaised == vad_failed' # vad_failed

(* C26: when the VAD raises for a chunk the chunk is handled as no speech:  *)
(* the machine goes to (or stays in) Idle, an open utterance is closed     *)
(* with utterance_complete for that chunk, nothing is appended to the       *)
(* utterance buffer, no exception leaves the handler, and the next chunk    *)
(* can be handled.                                                          *)
C26_VadFailureIsSilence ==
    /\ [][VadRaised =>
            /\ ~in_speech'
            /\ speech_buffer' = speech_buffer
            /\ events' = IF in_speech
                         THEN Append(events,
                                Event("utterance_complete", delivered', Cap))
                         ELSE events
            /\ decisions'[delivered'] = "unknown"
            /\ escaped' = escaped
            /\ error_queue' = error_queue]_vars
    /\ []((vad_failed # {} /\ delivered < chunk_budget) =>
            ENABLED ProcessChunkBlock)

\* the VAD raised on a chunk inside an utterance, which was closed and
\* counted, and a later chunk opened the next utterance
C26_Witness ==
    /\ Len(events) = 3
    /\ events[2].event = "utterance_complete"
    /\ events[2].chunk \in vad_failed
    /\ utterance_count = 1
    /\ events[3].event = "speech_started"
    /\ in_speech /\ speech_buffer # <<>>

\* a collaborator raised in this call of _process_chunk
CollaboratorRaised == faults' > faults

(* C27: every exception a collaborator raises while a chunk is handled is   *)
(* recorded as one entry on error_queue, and the chunk is handled with the  *)
(* safe default: a failed classification leaves the noise label and the    *)
(* noise history as they were, a failed load or transcription leaves the    *)
(* utterance without transcription.                                         *)
C27_CollaboratorFaultsRecorded ==
    /\ [][CollaboratorRaised =>
            Len(error_queue') = Len(error_queue) + (faults' - faults)]_vars
    /\ [][(classified' # classified /\ ~Last(classified').ok) =>
            /\ current_noise_type' = current_noise_type
            /\ noise_history' = noise_history]_vars
    /\ [][(loads' # loads /\ ~Last(loads').ok) =>
            /\ ~transcriber_loaded'
            /\ transcribed' = transcribed]_vars

\* the part of C27 the code keeps: the safe defaults
C27_SafeDefaults ==
    /\ [][(classified' # classified /\ ~Last(classified').ok) =>
            /\ current_noise_type' = current_noise_type
            /\ noise_history' = noise_history]_vars
    /\ [][(loads' # loads /\ ~Last(loads').ok) =>
            /\ ~transcriber_loaded'
            /\ transcribed' = transcribed]_vars
    /\ [][VadRaised => ~in_speech' /\ speech_buffer' = speech_buffer]_vars

\* a collaborator has raised and error_queue is empty
C27_FaultNotRecorded ==
    /\ faults = 1
    /\ error_queue = <<>>
    /\ \/ vad_failed # {}
       \/ classified # <<>> /\ ~Last(classified).ok
       \/ loads # <<>> /\ ~Last(loads).ok
       \/ transcribed # <<>> /\ ~Last(transcribed).ok

(* C28: between any two invocations of the ambient-noise classifier at     *)
(* least noise_update_interval seconds of wall-clock time have passed,     *)
(* whichever threads run _process_chunk and whether or not the earlier     *)
(* invocation failed.                                                      *)
C28_ClassifierOncePerInterval ==
    \A i, j \in 1..Len(classified) :
        i < j => classified[j].at - classified[i].at >= noise_update_interval

\* two threads have invoked the classifier at the same time
C28_TwoAtOnce ==
    /\ Len(classified) = 2
    /\ classified[1].at = classified[2].at

\* the step is a call of _process_chunk in which an utterance passed the
\* filter of line 162
UtteranceTaken == utterances' # utterances

Closing ==
    {n \in 2..delivered :
        decisions[n - 1] = "speech" /\ decisions[n] = "silence"}

\* every delivered chunk has been handled by every thread that takes it
AllDone ==
    /\ Quiescent
    /\ InHandling = {}
    /\ dropped = {}
    /\ Len(handled) = delivered

(* C30: with the transcriber available, each closed utterance that meets    *)
(* the filter is counted once and transcribed once: utterance_count and     *)
(* the number of transcriptions never exceed the number of closed           *)
(* utterances, no closing chunk has two utterances or two transcriptions,   *)
(* and when every chunk is handled both numbers equal the number of closed  *)
(* utterances; this in every session in which no collaborator fails.        *)
C30_OncePerUtterance ==
    faults = 0 =>
        /\ utterance_count <= Cardinality(Closing)
        /\ Len(transcribed) <= Cardinality(Closing)
        /\ \A i, j \in 1..Len(utterances) :
               i # j => utterances[i].chunk # utterances[j].chunk
        /\ \A i, j \in 1..Len(transcribed) :
               i # j => transcribed[i].chunk # transcribed[j].chunk
        /\ AllDone =>
               /\ utterance_count = Cardinality(Closing)
               /\ Len(transcribed) = Cardinality(Closing)

\* the part of C30 the code keeps: with one thread calling the handler the
\* utterances counted are the closed ones
C30_CountedOnceSequential == utterance_count = Cardinality(Closing)

\* one utterance was closed and two were counted and transcribed
C30_CountedTwice ==
    /\ Cardinality(Closing) = 1
    /\ utterance_count = 2
    /\ Len(transcribed) = 2

(* ======================= fault channel, bounds, threads ================= *)
\* a step of stop_recording or of _audio_callback / _processing_loop, the
\* three writers of error_queue
StopStreamTaken == ctl_pc = "stop_stream" /\ ctl_pc' # ctl_pc

WriterStep ==
    \/ CaptureStep
    \/ \E w \in Workers : WorkerStep(w)
    \/ StopStreamTaken

(* C31: a write to error_queue never raises into its writer and never     *)
(* blocks it: whatever the queue already holds, every fault raised in the *)
(* capture callback, in a worker or in stop_recording adds exactly one    *)
(* entry behind the entries already there, nothing escapes, and the       *)
(* writer goes on to its next position.                                   *)
C31_FaultWriteNeverBlocks ==
    /\ [][WriterStep
            => /\ IsPrefix(error_queue, error_queue')
               /\ Len(error_queue') = Len(error_queue) + (faults' - faults)
               /\ escaped' = escaped]_vars
    /\ [][(StopStreamTaken /\ faults' > faults)
            => ctl_pc' = "stop_join"]_vars
    /\ [][(CaptureStep /\ faults' > faults) => pc'[Cap] \in {"idle", "put"}]_vars
    /\ [][\A w \in Workers : (WorkerStep(w) /\ faults' > faults)
            => pc'[w] \in {"cb", "incr"}]_vars
    /\ [](~escaped)

\* a second fault has been written behind the first
C31_Witness ==
    /\ Len(error_queue) = 2
    /\ faults = 2
    /\ ~escaped

\* an invocation of the classifier has returned or raised in this step
Classified == Len(classified') = Len(classified) + 1

(* C32: noise_history never holds more than noise_history_maxlen entries: *)
(* a successful classification appends exactly one entry, the entry of    *)
(* that classification, and evicts the oldest entry when the history is   *)
(* full; a failed classification and a chunk with no classification leave *)
(* the history as it is.                                                  *)
C32_NoiseHistoryBounded ==
    /\ [](Len(noise_history) <= noise_history_maxlen)
    /\ [][(Classified /\ Last(classified').ok)
            => /\ Last(noise_history').timestamp = Last(classified').at
               /\ Last(noise_history').type = current_noise_type'
               /\ IF Len(noise_history) < noise_history_maxlen
                  THEN noise_history' = Append(noise_history,
                                               Last(noise_history'))
                  ELSE noise_history' = Append(Tail(noise_history),
                                               Last(noise_history'))]_vars
    /\ [][(Classified /\ ~Last(classified').ok)
            => noise_history' = noise_history]_vars
    /\ [][~Classified => noise_history' = noise_history]_vars

\* a third successful classification has evicted the entry of the first
C32_Witness ==
    /\ Len(classified) = 3
    /\ \A i \in 1..3 : classified[i].ok
    /\ Len(noise_history) = noise_history_maxlen
    /\ noise_history[1].timestamp = classified[2].at
    /\ noise_history[2].timestamp = classified[3].at

\* the cap the configuration names for an utterance, in samples
max_utterance_samples == max_utterance_duration * sample_rate

(* C33: speech_buffer never holds more than max_utterance_duration x      *)
(* sample_rate samples: an open utterance that reaches the cap is closed  *)
(* early, however long the run of speech decisions is.                    *)
C33_UtteranceBufferCapped == Len(speech_buffer) <= max_utterance_samples

\* three full chunks of speech in a row are all in the buffer of the
\* utterance, which is still open
C33_OverCap ==
    /\ in_speech
    /\ Len(speech_buffer) = 3 * chunk_samples
    /\ Len(speech_buffer) > max_utterance_samples
    /\ Len(events) = 1

(* C34: in every reachable state total_chunks_processed is at most        *)
(* total_chunks_received, under every interleaving of the capture         *)
(* callback and the worker.                                               *)
C34_ProcessedAtMostReceived == total_chunks_processed <= total_chunks_received

\* the worker has popped, handled and counted the chunk that the capture
\* thread has pushed and not yet counted
C34_CountedBeforeReceived ==
    /\ pc[Cap] = "incr"
    /\ total_chunks_received = 0
    /\ total_chunks_processed = 1
    /\ handled = <<chunk[Cap]>>

\* the worker threads that execute _processing_loop
LiveWorkers == {w \in Workers : Alive(w)}

(* C35: across every sequence of start and stop calls at most one worker  *)
(* thread executes the processing loop at any time, also after a stop     *)
(* whose join timed out is followed by a start.                           *)
C35_AtMostOneWorker == Cardinality(LiveWorkers) <= 1

\* the abandoned worker and the new worker have each popped a chunk from
\* the queue in the second session
C35_TwoWorkersDraining ==
    /\ starts = 2
    /\ is_recording
    /\ Cardinality(LiveWorkers) = 2
    /\ \A w \in LiveWorkers : pc[w] = "extend"

\* the kind of event expected at position i of a session's events
Expected(i) == IF i % 2 = 1 THEN "speech_started" ELSE "utterance_complete"

(* C36: whatever thread calls update_speech_state and however the calls   *)
(* interleave, the emitted events alternate speech_started,               *)
(* utterance_complete, speech_started, ..., beginning with                *)
(* speech_started.                                                        *)
C36_EventsAlternate == \A i \in 1..Len(events) : events[i].event = Expected(i)

\* the capture thread and a worker have both read in_speech as False and
\* both emitted speech_started, with no utterance_complete between
C36_TwoStarts ==
    /\ Len(events) = 2
    /\ events[1].event = "speech_started"
    /\ events[2].event = "speech_started"
    /\ events[1].thread # events[2].thread

\* the capture callback finds the queue full in this step
RejectedPush == dropped' # dropped

(* C37: a rejected push has no effect: it leaves the queue contents,      *)
(* total_chunks_received, total_chunks_processed, the ring buffer, the    *)
(* speech state, the utterance buffer and the fault channel unchanged and *)
(* the capture callback returns; the dropped chunk is never in the queue  *)
(* and is never passed to the processing callback.                        *)
C37_RejectedPushNoEffect ==
    /\ [][RejectedPush
            => /\ pc[Cap] = "put" /\ Full(audio_queue)
               /\ dropped' = dropped \cup {chunk[Cap]}
               /\ pc'[Cap] = "idle"
               /\ UNCHANGED <<audio_queue, error_queue, ring_buffer, counters,
                              speechVars, accepted, workHist, ctlState>>]_vars
    /\ [](\A n \in dropped :
            /\ n \notin Range(audio_queue)
            /\ n \notin Range(accepted)
            /\ n \notin Range(handled)
            /\ Invocations(n) = 0)

\* a chunk was rejected, the capture callback has returned, and the
\* workers have since handled everything that was accepted
C37_Witness ==
    /\ dropped # {}
    /\ pc[Cap] = "idle"
    /\ Len(handled) = Len(accepted)
    /\ Len(accepted) >= queue_maxsize
    /\ total_chunks_processed = Len(accepted)

\* a chunk was rejected while an utterance was open, and the workers have
\* since handled everything that was accepted
C37_RejectedInSpeech ==
    /\ dropped # {}
    /\ pc[Cap] = "idle"
    /\ in_speech
    /\ speech_buffer # <<>>
    /\ Len(handled) = Len(accepted)

\* chunk n was popped, its handling is over and line 119 has counted it
Counted(n) ==
    /\ n \in Range(handled)
    /\ \A w \in Workers : chunk[w] # n

(* C38: while is_recording stays set and the calls of the collaborators   *)
(* return, every chunk in audio_queue is eventually popped by a worker    *)
(* and counted in total_chunks_processed; total_chunks_processed is the   *)
(* number of chunks so counted.                                           *)
C38_AcceptedEventuallyProcessed ==
    /\ \A n \in Chunks :
          (n \in Range(audio_queue)) ~> (Counted(n) \/ ~is_recording)
    /\ [](total_chunks_processed
            = Cardinality({n \in Chunks : Counted(n)}))

\* every chunk that was accepted has been popped and counted, the second
\* after it had waited in the queue behind the first, in a session that is
\* still recording
C38_Witness ==
    /\ is_recording
    /\ ctl_pc = "idle"
    /\ Len(accepted) = 2
    /\ \A n \in Range(accepted) : Counted(n)
    /\ total_chunks_processed = 2
    /\ audio_queue = <<>>

(* C39: a chunk accepted in one session is never handled in a later       *)
(* session: the worker started by the w-th start never holds a chunk that *)
(* the capture callback received in an earlier session.                   *)
C39_NoChunkAcrossSessions ==
    \A w \in Workers : chunk[w] # 0 => epoch[chunk[w]] >= w

\* the first session was stopped with a chunk left in the queue and its
\* worker has ended; the worker of the second session has popped that
\* chunk and extended the ring buffer with it
C39_StaleChunkHandled ==
    /\ starts = 2
    /\ pc[1] = "dead"
    /\ pc[2] = "cb"
    /\ epoch[chunk[2]] = 1
    /\ Last(handled) = chunk[2]
====
